---------------------------- MODULE Spec2Model ----------------------------
(***************************************************************************)
(* Portfolio dashboard of iznajmime/crypto-managment.                      *)
(*                                                                         *)
(* The store (profiles table, transactions ledger), the three write-path   *)
(* handlers (create client, deposit/withdraw, log trade), the dashboard's  *)
(* fetch pass and the accounting computed by the dashboard's useMemo.      *)
(*                                                                         *)
(* JavaScript numbers are modelled as exact rationals <<n, d>> (d > 0, in  *)
(* lowest terms; d = 0 for a non-finite value): every sum, product and quotient of the code is computed  *)
(* exactly, so floating-point rounding is outside the model.               *)
(***************************************************************************)
EXTENDS Integers, Sequences, FiniteSets, TLC

VARIABLES
    profilesTbl,    \* store: rows of table profiles, in insertion order
    ledger,         \* store: rows of table transactions, in insertion order
    profiles,       \* DashboardPage state (useState, line 79)
    transactions,   \* DashboardPage state (line 80)
    prices,         \* DashboardPage state (line 81)
    loading,        \* DashboardPage state (line 82)
    dash,           \* DashboardPage.fetchData: position and pending results
    cprofiles,      \* ClientsPage state `profiles` (line 478)
    selectedProfile,\* ClientsPage state (line 481), 0 = null
    cc,             \* onCreateClientSubmit call in flight
    dw,             \* onDepositWithdrawSubmit call in flight
    tr,             \* TradesPage.onSubmit call in flight
    mounted,        \* DashboardPage is mounted (its state is live)
    call,           \* a call of fetchCryptoPrices: its position, argument and result
    form,           \* TradesPage: the trade form's values and whether it shows errors
    auth,           \* AuthProvider state (Dashboard.tsx 795-797) and its effect's position
    authClient      \* the auth client: its current session and the last event it emitted

vars == <<profilesTbl, ledger, profiles, transactions, prices, loading, dash,
          cprofiles, selectedProfile, cc, dw, tr, mounted, call, form, auth,
          authClient>>

-----------------------------------------------------------------------------
(* Bounds of the model *)

MaxTx == 3          \* rows of the transaction list handed to the engine
MaxLedger == 2      \* rows the store's ledger may grow to
MaxProfiles == 2    \* rows the profiles table may grow to

-----------------------------------------------------------------------------
(* Exact rational arithmetic standing for JavaScript numbers *)

RECURSIVE GCD(_, _)
GCD(a, b) == IF b = 0 THEN a ELSE GCD(b, a % b)

Abs(x) == IF x < 0 THEN -x ELSE x

Norm(n, d) ==
    LET s == IF d < 0 THEN -1 ELSE 1
        g == GCD(Abs(n), Abs(d))
    IN  IF d = 0 THEN <<(IF n > 0 THEN 1 ELSE IF n < 0 THEN -1 ELSE 0), 0>>
        ELSE IF n = 0 THEN <<0, 1>>
        ELSE <<(s * n) \div g, (s * d) \div g>>

R(n) == <<n, 1>>
Zero == <<0, 1>>
RAdd(a, b) == Norm(a[1] * b[2] + b[1] * a[2], a[2] * b[2])
RNeg(a) == <<-a[1], a[2]>>
RSub(a, b) == RAdd(a, RNeg(b))
RMul(a, b) == Norm(a[1] * b[1], a[2] * b[2])
\* a / b; a zero divisor gives a value of denominator 0 (Infinity, -Infinity
\* or, for 0/0, NaN), which every later operation keeps non-finite
RDiv(a, b) == Norm(a[1] * b[2], a[2] * b[1])
RLt(a, b) == a[1] * b[2] < b[1] * a[2]
RGt(a, b) == RLt(b, a)
RPos(a) == a[1] > 0
\* a < 1/k for a large positive integer k, without forming a[1] * k
RLtInv(a, k) == a[1] <= 0 \/ k <= (a[2] - 1) \div a[1]
\* a > 1/k
RGtInv(a, k) == a[1] > 0 /\ (a[2] \div a[1] < k)


-----------------------------------------------------------------------------
(* Rows and helpers *)

\* profile_id of a fund-level trade (null)
NoProfile == 0

\* String.prototype.toLowerCase / toUpperCase on the symbols of the model
toLowerCase(a) ==
    CASE a = "BTC" -> "btc" [] a = "ETH" -> "eth" [] a = "XYZ" -> "xyz"
      [] a = "USD" -> "usd" [] OTHER -> a

toUpperCase(a) ==
    CASE a = "btc" -> "BTC" [] a = "eth" -> "ETH" [] a = "xyz" -> "XYZ"
      [] a = "usd" -> "USD" [] OTHER -> a

\* Array.prototype.reduce((sum, x) => sum + x, 0) over a sequence of numbers
RECURSIVE RSumSeq(_)
RSumSeq(s) ==
    IF Len(s) = 0 THEN Zero
    ELSE RAdd(RSumSeq(SubSeq(s, 1, Len(s) - 1)), s[Len(s)])

ValuesOf(s) == [i \in 1..Len(s) |-> s[i].transaction_value_usd]
QuantitiesOf(s) == [i \in 1..Len(s) |-> s[i].asset_quantity]

\* transactions.filter(t => t.transaction_type === type).reduce(sum of value)
SumOfType(txs, type) ==
    RSumSeq(ValuesOf(SelectSeq(txs, LAMBDA t : t.transaction_type = type)))

\* [...transactions].sort((a, b) => time(a.created_at) - time(b.created_at)):
\* Array.prototype.sort is stable; insertion sort from the left, an element
\* moves in front of exactly those it strictly precedes
RECURSIVE insertByCreatedAt(_, _)
insertByCreatedAt(sorted, x) ==
    IF Len(sorted) = 0 THEN <<x>>
    ELSE IF sorted[Len(sorted)].created_at > x.created_at
         THEN Append(insertByCreatedAt(SubSeq(sorted, 1, Len(sorted) - 1), x),
                     sorted[Len(sorted)])
         ELSE Append(sorted, x)

RECURSIVE sortByCreatedAt(_)
sortByCreatedAt(s) ==
    IF Len(s) = 0 THEN <<>>
    ELSE insertByCreatedAt(sortByCreatedAt(SubSeq(s, 1, Len(s) - 1)), s[Len(s)])

\* .sort((a, b) => b.equityValue - a.equityValue): stable, descending
RECURSIVE insertByEquityDesc(_, _)
insertByEquityDesc(sorted, x) ==
    IF Len(sorted) = 0 THEN <<x>>
    ELSE IF RLt(sorted[Len(sorted)].equityValue, x.equityValue)
         THEN Append(insertByEquityDesc(SubSeq(sorted, 1, Len(sorted) - 1), x),
                     sorted[Len(sorted)])
         ELSE Append(sorted, x)

RECURSIVE sortByEquityDesc(_)
sortByEquityDesc(s) ==
    IF Len(s) = 0 THEN <<>>
    ELSE insertByEquityDesc(sortByEquityDesc(SubSeq(s, 1, Len(s) - 1)), s[Len(s)])

-----------------------------------------------------------------------------
(* DashboardPage useMemo (Dashboard.tsx 122-230) *)

HoldingDustInv == 1000000       \* h.quantity > 1e-6
ReplayDustInv == 1000000000     \* assetCosts.totalQuantity < 1e-9

\* lines 127-131
deposits(txs) == SumOfType(txs, "DEPOSIT")
withdrawals(txs) == SumOfType(txs, "WITHDRAW")
buys(txs) == SumOfType(txs, "BUY")
sells(txs) == SumOfType(txs, "SELL")

\* the purchases added to the cash instead of taken from it
calculatedTotalCash_signSlip(txs) ==
    RAdd(RSub(RAdd(deposits(txs), sells(txs)), withdrawals(txs)), buys(txs))

calculatedTotalCash(txs) ==
    RSub(RSub(RAdd(deposits(txs), sells(txs)), withdrawals(txs)), buys(txs))

\* keys of cryptoHoldingsMap in insertion order (Object.entries order)
RECURSIVE holdingKeys(_)
holdingKeys(txs) ==
    IF Len(txs) = 0 THEN <<>>
    ELSE LET front == holdingKeys(SubSeq(txs, 1, Len(txs) - 1))
             a == txs[Len(txs)].asset
         IN  IF a = "USD" \/ \E i \in 1..Len(front) : front[i] = a
             THEN front ELSE Append(front, a)

\* a SELL taking its USD value from the quantity
RECURSIVE cryptoHoldingsMap_valueSold(_, _)
cryptoHoldingsMap_valueSold(txs, asset) ==
    IF Len(txs) = 0 THEN Zero
    ELSE LET acc == cryptoHoldingsMap_valueSold(SubSeq(txs, 1, Len(txs) - 1), asset)
             t == txs[Len(txs)]
         IN  IF t.asset = "USD" \/ t.asset # asset THEN acc
             ELSE IF t.transaction_type = "BUY" THEN RAdd(acc, t.asset_quantity)
             ELSE IF t.transaction_type = "SELL" THEN RSub(acc, t.transaction_value_usd)
             ELSE acc

\* lines 133-139: the quantity folded for one asset
RECURSIVE cryptoHoldingsMap(_, _)
cryptoHoldingsMap(txs, asset) ==
    IF Len(txs) = 0 THEN Zero
    ELSE LET acc == cryptoHoldingsMap(SubSeq(txs, 1, Len(txs) - 1), asset)
             t == txs[Len(txs)]
         IN  IF t.asset = "USD" \/ t.asset # asset THEN acc
             ELSE IF t.transaction_type = "BUY" THEN RAdd(acc, t.asset_quantity)
             ELSE IF t.transaction_type = "SELL" THEN RSub(acc, t.asset_quantity)
             ELSE acc

\* the mean of the prices paid, each BUY counting the same
costBasisMap_meanOfPrices(txs, asset) ==
    LET buyTransactions ==
            SelectSeq(txs, LAMBDA t : t.asset = asset /\ t.transaction_type = "BUY")
        paid == [i \in 1..Len(buyTransactions) |->
                    RDiv(buyTransactions[i].transaction_value_usd,
                         buyTransactions[i].asset_quantity)]
    IN  IF Len(buyTransactions) > 0
        THEN RDiv(RSumSeq(paid), R(Len(buyTransactions))) ELSE Zero

\* lines 141-147
costBasisMap(txs, asset) ==
    LET buyTransactions ==
            SelectSeq(txs, LAMBDA t : t.asset = asset /\ t.transaction_type = "BUY")
        totalUsdSpent == RSumSeq(ValuesOf(buyTransactions))
        totalQuantityBought == RSumSeq(QuantitiesOf(buyTransactions))
    IN  IF RPos(totalQuantityBought)
        THEN RDiv(totalUsdSpent, totalQuantityBought) ELSE Zero

\* a missing price taken as 0
priceToUse_zeroWhenMissing(txs, prc, asset) ==
    IF toLowerCase(asset) \in DOMAIN prc THEN prc[toLowerCase(asset)] ELSE Zero

\* lines 151-153: the price one unit of the asset is valued at
priceToUse(txs, prc, asset) ==
    IF toLowerCase(asset) \in DOMAIN prc
    THEN prc[toLowerCase(asset)] ELSE costBasisMap(txs, asset)

\* lines 149-155: the mapped entries, before the filter
mappedHoldings(txs, prc) ==
    LET keys == holdingKeys(txs)
    IN  [i \in 1..Len(keys) |->
            LET quantity == cryptoHoldingsMap(txs, keys[i])
            IN  [name |-> keys[i], quantity |-> quantity,
                 marketValue |-> RMul(quantity, priceToUse(txs, prc, keys[i]))]]

\* every entry with a quantity other than 0 kept
holdingListed_nonZero(h) == h.quantity # Zero

\* line 156
holdingListed(h) == RGtInv(h.quantity, HoldingDustInv)

calculatedAssetHoldings(txs, prc) ==
    SelectSeq(mappedHoldings(txs, prc), holdingListed)

\* the total taken over the entries before the filter
cryptoValue_unfiltered(txs, prc) ==
    LET hs == mappedHoldings(txs, prc)
    IN  RSumSeq([i \in 1..Len(hs) |-> hs[i].marketValue])

\* line 158
cryptoValue(txs, prc) ==
    LET hs == calculatedAssetHoldings(txs, prc)
    IN  RSumSeq([i \in 1..Len(hs) |-> hs[i].marketValue])

\* lines 159-161
calculatedTPV(txs, prc) == RAdd(cryptoValue(txs, prc), calculatedTotalCash(txs))

\* the capital invested counted without the withdrawals
netCapitalInvested_depositsOnly(txs) == deposits(txs)

netCapitalInvested(txs) == RSub(deposits(txs), withdrawals(txs))
calculatedAllTimePL(txs, prc) == RSub(calculatedTPV(txs, prc), netCapitalInvested(txs))

\* lines 163-166
calculatedAssetAllocation(txs, prc) ==
    LET hs == calculatedAssetHoldings(txs, prc)
        alloc == [i \in 1..Len(hs) |-> [name |-> hs[i].name, value |-> hs[i].marketValue]]
        cash == calculatedTotalCash(txs)
    IN  IF RGt(cash, <<1, 100>>)
        THEN Append(alloc, [name |-> "Cash", value |-> cash]) ELSE alloc

\* lines 168-173: clientDeposits[pid] (undefined || 0 when pid never deposited)
clientDeposits(txs, pid) ==
    RSumSeq(ValuesOf(SelectSeq(txs, LAMBDA t :
        t.transaction_type = "DEPOSIT" /\ t.profile_id # NoProfile
        /\ t.profile_id = pid)))

\* keys of clientDeposits in insertion order
RECURSIVE depositKeys(_)
depositKeys(txs) ==
    IF Len(txs) = 0 THEN <<>>
    ELSE LET front == depositKeys(SubSeq(txs, 1, Len(txs) - 1))
             t == txs[Len(txs)]
         IN  IF t.transaction_type = "DEPOSIT" /\ t.profile_id # NoProfile
                /\ ~ \E i \in 1..Len(front) : front[i] = t.profile_id
             THEN Append(front, t.profile_id) ELSE front

\* line 174: Object.values(clientDeposits).reduce(...)
totalDeposits(txs) ==
    LET keys == depositKeys(txs)
    IN  RSumSeq([i \in 1..Len(keys) |-> clientDeposits(txs, keys[i])])

\* the share taken without looking at the total
ownershipPercentage_unguarded(txs, pid) ==
    RMul(RDiv(clientDeposits(txs, pid), totalDeposits(txs)), R(100))

\* line 177
ownershipPercentage(txs, pid) ==
    IF RPos(totalDeposits(txs))
    THEN RMul(RDiv(clientDeposits(txs, pid), totalDeposits(txs)), R(100))
    ELSE Zero

\* the capital deposited shown as the client's equity
breakdownEntry_depositAsEquity(txs, prc, profile) ==
    [name |-> profile.name,
     capitalDeposited |-> clientDeposits(txs, profile.id),
     ownershipPercentage |-> ownershipPercentage(txs, profile.id),
     equityValue |-> clientDeposits(txs, profile.id)]

\* lines 175-179: one entry of profiles.map(...)
breakdownEntry(txs, prc, profile) ==
    LET pct == ownershipPercentage(txs, profile.id)
    IN  [name |-> profile.name,
         capitalDeposited |-> clientDeposits(txs, profile.id),
         ownershipPercentage |-> pct,
         equityValue |-> RMul(RDiv(pct, R(100)), calculatedTPV(txs, prc))]

\* lines 175-180
calculatedClientBreakdown(profs, txs, prc) ==
    sortByEquityDesc([i \in 1..Len(profs) |-> breakdownEntry(txs, prc, profs[i])])

-----------------------------------------------------------------------------
(* Realized P&L replay (Dashboard.tsx 183-219) *)

\* the non-cash symbols the trade form is given in the model
Symbols == {"BTC", "XYZ"}

\* line 184, with `if (!runningCosts[t.asset])` initialising an entry to 0/0
runningCostsInit ==
    [a \in Symbols |-> [totalQuantity |-> Zero, totalCost |-> Zero]]

replayInit == [runningCosts |-> runningCostsInit, out |-> <<>>]

\* lines 199-200
averageCostPerUnit(assetCosts) == RDiv(assetCosts.totalCost, assetCosts.totalQuantity)
costOfSoldAssets(assetCosts, t) == RMul(t.asset_quantity, averageCostPerUnit(assetCosts))

\* the gain taken relative to the sale value instead of the cost
pnlPercentage_overValue(assetCosts, t) ==
    LET cost == costOfSoldAssets(assetCosts, t)
    IN  IF RPos(cost)
        THEN RMul(RDiv(RSub(t.transaction_value_usd, cost), t.transaction_value_usd), R(100))
        ELSE Zero

\* lines 202-204
pnlPercentage(assetCosts, t) ==
    LET cost == costOfSoldAssets(assetCosts, t)
    IN  IF RPos(cost)
        THEN RMul(RDiv(RSub(t.transaction_value_usd, cost), cost), R(100))
        ELSE Zero

\* line 198
sellGuard(assetCosts) == RPos(assetCosts.totalQuantity)

\* the sale taken off the running totals with nothing reset
afterSale_noReset(assetCosts, t) ==
    [totalQuantity |-> RSub(assetCosts.totalQuantity, t.asset_quantity),
     totalCost |-> RSub(assetCosts.totalCost, costOfSoldAssets(assetCosts, t))]

\* lines 211-216
afterSale(assetCosts, t) ==
    LET q == RSub(assetCosts.totalQuantity, t.asset_quantity)
        c == RSub(assetCosts.totalCost, costOfSoldAssets(assetCosts, t))
    IN  IF RLtInv(q, ReplayDustInv)
        THEN [totalQuantity |-> Zero, totalCost |-> Zero]
        ELSE [totalQuantity |-> q, totalCost |-> c]

\* lines 187-219: the body of sortedTransactions.forEach
replayStep(st, t) ==
    IF t.asset = "USD" THEN st
    ELSE LET assetCosts == st.runningCosts[t.asset]
         IN  IF t.transaction_type = "BUY"
             THEN [st EXCEPT !.runningCosts[t.asset] =
                     [totalQuantity |-> RAdd(assetCosts.totalQuantity, t.asset_quantity),
                      totalCost |-> RAdd(assetCosts.totalCost, t.transaction_value_usd)]]
             ELSE IF t.transaction_type = "SELL" /\ sellGuard(assetCosts)
             THEN [runningCosts |-> [st.runningCosts EXCEPT ![t.asset] = afterSale(assetCosts, t)],
                   out |-> Append(st.out,
                              [x |-> <<t.asset, t.created_at>>,
                               y |-> pnlPercentage(assetCosts, t)])]
             ELSE st

RECURSIVE replay(_)
replay(sorted) ==
    IF Len(sorted) = 0 THEN replayInit
    ELSE replayStep(replay(SubSeq(sorted, 1, Len(sorted) - 1)), sorted[Len(sorted)])

\* the list replayed as it came
sortedTransactions_unsorted(txs) == txs

\* line 185
sortedTransactions(txs) == sortByCreatedAt(txs)

calculatedRealizedPnL(txs) == replay(sortedTransactions(txs)).out

\* the guard looking at the list alone
memoEmpty_listOnly(txs, ld) == Len(txs) = 0

\* lines 122-125: while loading, or with no transaction, every result is its
\* empty default
memoEmpty(txs, ld) == ld \/ Len(txs) = 0

\* lines 221-229: the fields of the value of the useMemo
totalPortfolioValue(txs, prc, ld) ==
    IF memoEmpty(txs, ld) THEN Zero ELSE calculatedTPV(txs, prc)
totalCash(txs, ld) ==
    IF memoEmpty(txs, ld) THEN Zero ELSE calculatedTotalCash(txs)
allTimePL(txs, prc, ld) ==
    IF memoEmpty(txs, ld) THEN Zero ELSE calculatedAllTimePL(txs, prc)
assetHoldings(txs, prc, ld) ==
    IF memoEmpty(txs, ld) THEN <<>> ELSE calculatedAssetHoldings(txs, prc)
assetAllocation(txs, prc, ld) ==
    IF memoEmpty(txs, ld) THEN <<>> ELSE calculatedAssetAllocation(txs, prc)
clientBreakdown(profs, txs, prc, ld) ==
    IF memoEmpty(txs, ld) THEN <<>> ELSE calculatedClientBreakdown(profs, txs, prc)
realizedPnLData(txs, ld) ==
    IF memoEmpty(txs, ld) THEN <<>> ELSE calculatedRealizedPnL(txs)

\* lines 114-230: the value of the useMemo
useMemo(profs, txs, prc, ld) ==
    [totalPortfolioValue |-> totalPortfolioValue(txs, prc, ld),
     totalCash |-> totalCash(txs, ld),
     allTimePL |-> allTimePL(txs, prc, ld),
     assetHoldings |-> assetHoldings(txs, prc, ld),
     assetAllocation |-> assetAllocation(txs, prc, ld),
     clientBreakdown |-> clientBreakdown(profs, txs, prc, ld),
     realizedPnLData |-> realizedPnLData(txs, ld)]

\* what the dashboard derives from its current state, field by field
viewTotalPortfolioValue == totalPortfolioValue(transactions, prices, loading)
viewTotalCash == totalCash(transactions, loading)
viewAllTimePL == allTimePL(transactions, prices, loading)
viewAssetHoldings == assetHoldings(transactions, prices, loading)
viewAssetAllocation == assetAllocation(transactions, prices, loading)
viewClientBreakdown == clientBreakdown(profiles, transactions, prices, loading)
viewRealizedPnLData == realizedPnLData(transactions, loading)

\* lines 236-237, evaluated once the component is past the loading guard
netDeposits(txs) ==
    RSub(RSumSeq(ValuesOf(SelectSeq(txs, LAMBDA t : t.transaction_type = "DEPOSIT"))),
         RSumSeq(ValuesOf(SelectSeq(txs, LAMBDA t : t.transaction_type = "WITHDRAW"))))

plReturn ==
    IF RPos(netDeposits(transactions))
    THEN RMul(RDiv(viewAllTimePL, netDeposits(transactions)), R(100))
    ELSE Zero

\* line 343: the share of the portfolio shown next to a holding
holdingShare(h) ==
    IF RPos(viewTotalPortfolioValue)
    THEN RMul(RDiv(h.marketValue, viewTotalPortfolioValue), R(100))
    ELSE Zero

-----------------------------------------------------------------------------
(* The store: tables profiles and transactions behind the supabase client *)

\* created_at DEFAULT now(): the clock has not moved since the last row, or has
lastCreatedAt(ldg) == IF Len(ldg) = 0 THEN 1 ELSE ldg[Len(ldg)].created_at
nowChoices(ldg) == {lastCreatedAt(ldg), lastCreatedAt(ldg) + 1}

\* the new row written over the newest row instead of after it
insertTransaction_overwrite(ldg, payload, ts) ==
    LET row == [id |-> Len(ldg) + 1,
                profile_id |-> payload.profile_id,
                transaction_type |-> payload.transaction_type,
                asset |-> payload.asset,
                asset_quantity |-> payload.asset_quantity,
                price_per_asset_usd |-> payload.price_per_asset_usd,
                transaction_value_usd |-> payload.transaction_value_usd,
                created_at |-> ts]
    IN  IF Len(ldg) = 0 THEN <<row>> ELSE [ldg EXCEPT ![Len(ldg)] = row]

\* supabase.from('transactions').insert(payload): one row appended
insertTransaction(ldg, payload, ts) ==
    Append(ldg, [id |-> Len(ldg) + 1,
                 profile_id |-> payload.profile_id,
                 transaction_type |-> payload.transaction_type,
                 asset |-> payload.asset,
                 asset_quantity |-> payload.asset_quantity,
                 price_per_asset_usd |-> payload.price_per_asset_usd,
                 transaction_value_usd |-> payload.transaction_value_usd,
                 created_at |-> ts])

\* supabase.from('profiles').insert(payload).select().single()
insertProfile(tbl, payload) ==
    Append(tbl, [id |-> Len(tbl) + 1, name |-> payload.name,
                 total_deposited_usd |-> payload.total_deposited_usd])

\* the database function behind supabase.rpc('update_client_deposit', ...):
\* adds deposit_amount to the client's total_deposited_usd
update_client_deposit(tbl, client_id, deposit_amount) ==
    [i \in 1..Len(tbl) |->
        IF tbl[i].id = client_id
        THEN [tbl[i] EXCEPT !.total_deposited_usd = RAdd(@, deposit_amount)]
        ELSE tbl[i]]

Reverse(s) == [i \in 1..Len(s) |-> s[Len(s) + 1 - i]]

\* a select without ORDER BY returns the rows in an order the store chooses
rowOrders(s) == {s, Reverse(s)}

\* .select('id, name')
idAndName(tbl) == [i \in 1..Len(tbl) |-> [id |-> tbl[i].id, name |-> tbl[i].name]]

\* .select('*').order('created_at', { ascending: false }) on profiles: rows
\* are created one after the other, so newest first is the table reversed
profilesNewestFirst(tbl) == Reverse(tbl)

\* payload of a cash movement (Dashboard.tsx 538-543, 572-577); the row's
\* asset_quantity and price_per_asset_usd stay null, which no reader uses
cashPayload(pid, type, amount) ==
    [profile_id |-> pid, transaction_type |-> type, asset |-> "USD",
     asset_quantity |-> Zero, price_per_asset_usd |-> Zero,
     transaction_value_usd |-> amount]

-----------------------------------------------------------------------------
(* Form schemas and payloads *)

\* clientFormSchema.initialDeposit / depositWithdrawFormSchema.amount: positive
amountValid(amount) == RPos(amount)

\* the schema with the price left unchecked
tradeFormSchema_priceUnchecked(values) ==
    /\ values.transaction_type \in {"BUY", "SELL"}
    /\ RPos(values.transaction_value_usd)

\* tradeFormSchema (Trades.tsx 62-73)
tradeFormSchema(values) ==
    /\ values.transaction_type \in {"BUY", "SELL"}
    /\ RPos(values.transaction_value_usd)
    /\ RPos(values.price_per_asset_usd)

\* Trades.tsx 118-125
transactionPayload(values) ==
    LET divisor == IF values.price_per_asset_usd = Zero THEN R(1)
                   ELSE values.price_per_asset_usd
    IN  [profile_id |-> NoProfile,
         transaction_type |-> values.transaction_type,
         asset |-> toUpperCase(values.asset),
         asset_quantity |-> RDiv(values.transaction_value_usd, divisor),
         price_per_asset_usd |-> values.price_per_asset_usd,
         transaction_value_usd |-> values.transaction_value_usd]

-----------------------------------------------------------------------------
(* Price oracle: fetchCryptoPrices (cryptoApi.ts 17-41) *)

\* cryptoApi.ts 5-10
ASSET_ID_MAP == [a \in {"btc", "eth", "sol"} |->
    CASE a = "btc" -> "bitcoin" [] a = "eth" -> "ethereum" [] OTHER -> "solana"]

\* the prices the oracle may quote in the model
OraclePrices == {R(100), R(150), R(70000)}

emptyMap == [a \in {} |-> Zero]

\* line 18: the ids requested (assets.map(...).filter(Boolean))
requestedIds(assets) ==
    {ASSET_ID_MAP[toLowerCase(assets[i])] :
        i \in {j \in 1..Len(assets) : toLowerCase(assets[j]) \in DOMAIN ASSET_ID_MAP}}

\* what the HTTP call may come back with: a failure (a network error, or a
\* non-OK status with whatever body) or an OK status, the body quoting any
\* subset of the requested ids
OracleResponses(idSet) ==
    {[ok |-> b, data |-> f] :
        b \in BOOLEAN, f \in UNION {[S -> OraclePrices] : S \in SUBSET idSet}}

\* the body read without a look at the status
fetchCryptoPrices_statusIgnored(assets, resp) ==
    IF requestedIds(assets) = {} THEN emptyMap
    ELSE LET known == {toLowerCase(assets[i]) : i \in 1..Len(assets)}
                        \cap DOMAIN ASSET_ID_MAP
             quoted == {a \in known : ASSET_ID_MAP[a] \in DOMAIN resp.data}
         IN  [a \in quoted |-> resp.data[ASSET_ID_MAP[a]]]

\* the prices keyed by the symbols as they were given
fetchCryptoPrices_keysAsGiven(assets, resp) ==
    IF requestedIds(assets) = {} THEN emptyMap
    ELSE IF ~resp.ok THEN emptyMap
    ELSE LET known == {assets[i] : i \in {j \in 1..Len(assets) :
                            toLowerCase(assets[j]) \in DOMAIN ASSET_ID_MAP}}
             quoted == {a \in known : ASSET_ID_MAP[toLowerCase(a)] \in DOMAIN resp.data}
         IN  [a \in quoted |-> resp.data[ASSET_ID_MAP[toLowerCase(a)]]]

\* lines 17-41
fetchCryptoPrices(assets, resp) ==
    IF requestedIds(assets) = {} THEN emptyMap
    ELSE IF ~resp.ok THEN emptyMap
    ELSE LET known == {toLowerCase(assets[i]) : i \in 1..Len(assets)}
                        \cap DOMAIN ASSET_ID_MAP
             quoted == {a \in known : ASSET_ID_MAP[a] \in DOMAIN resp.data}
         IN  [a \in quoted |-> resp.data[ASSET_ID_MAP[a]]]

\* no call of fetchCryptoPrices under way
noResponse == [ok |-> FALSE, data |-> emptyMap]
callIdle == [pc |-> "idle", assets |-> <<>>, resp |-> noResponse, result |-> emptyMap]

\* Dashboard.tsx 99: [...new Set(filter(asset !== 'USD').map(toLowerCase))]
RECURSIVE uniqueAssets(_)
uniqueAssets(txs) ==
    IF Len(txs) = 0 THEN <<>>
    ELSE LET front == uniqueAssets(SubSeq(txs, 1, Len(txs) - 1))
             t == txs[Len(txs)]
         IN  IF t.asset = "USD" \/ \E i \in 1..Len(front) : front[i] = toLowerCase(t.asset)
             THEN front ELSE Append(front, toLowerCase(t.asset))

-----------------------------------------------------------------------------
(* DashboardPage.fetchData (Dashboard.tsx 84-112) *)

pending == [status |-> "pending", data |-> <<>>]
failed == [status |-> "error", data |-> <<>>]
okWith(rows) == [status |-> "ok", data |-> rows]

\* a state kept outside the component: the setter writes it mounted or not
setState_outsideComponent(current, next) == next

\* lines 79-82: a setter of useState replaces the state of a mounted
\* component; called after the unmount it has no effect on it
setState(current, next) == IF mounted THEN next ELSE current

dashInit == [pc |-> "start", profilesRes |-> pending, transactionsRes |-> pending]

\* lines 86-89: setLoading(true) and both selects issued
DashStart ==
    /\ dash.pc = "start"
    /\ loading' = setState(loading, TRUE)
    /\ dash' = [dash EXCEPT !.pc = "reads"]
    /\ UNCHANGED <<profilesTbl, ledger, profiles, transactions, prices,
                   cprofiles, selectedProfile, cc, dw, tr>>
    /\ UNCHANGED <<mounted, call, form, auth, authClient>>

\* line 88: the store answers the profiles select
DashSelectProfiles ==
    /\ dash.pc = "reads" /\ dash.profilesRes.status = "pending"
    /\ \E res \in {failed} \cup {okWith(rows) : rows \in rowOrders(idAndName(profilesTbl))} :
          dash' = [dash EXCEPT !.profilesRes = res]
    /\ UNCHANGED <<profilesTbl, ledger, profiles, transactions, prices, loading,
                   cprofiles, selectedProfile, cc, dw, tr>>
    /\ UNCHANGED <<mounted, call, form, auth, authClient>>

\* line 89: the store answers the transactions select
DashSelectTransactions ==
    /\ dash.pc = "reads" /\ dash.transactionsRes.status = "pending"
    /\ \E res \in {failed} \cup {okWith(rows) : rows \in rowOrders(ledger)} :
          dash' = [dash EXCEPT !.transactionsRes = res]
    /\ UNCHANGED <<profilesTbl, ledger, profiles, transactions, prices, loading,
                   cprofiles, selectedProfile, cc, dw, tr>>
    /\ UNCHANGED <<mounted, call, form, auth, authClient>>

\* the join with setLoading(false) at the end of the try block: a failed
\* read leaves loading as it is
DashJoin_noFinally ==
    /\ dash.pc = "reads"
    /\ dash.profilesRes.status # "pending" /\ dash.transactionsRes.status # "pending"
    /\ IF dash.profilesRes.status = "error" \/ dash.transactionsRes.status = "error"
       THEN /\ dash' = [dash EXCEPT !.pc = "done"]
            /\ UNCHANGED <<profiles, transactions, loading>>
       ELSE /\ profiles' = setState(profiles, dash.profilesRes.data)
            /\ transactions' = setState(transactions, dash.transactionsRes.data)
            /\ IF Len(uniqueAssets(dash.transactionsRes.data)) > 0
               THEN /\ dash' = [dash EXCEPT !.pc = "prices"]
                    /\ UNCHANGED loading
               ELSE /\ dash' = [dash EXCEPT !.pc = "done"]
                    /\ loading' = setState(loading, FALSE)
    /\ UNCHANGED <<profilesTbl, ledger, prices, cprofiles, selectedProfile, cc, dw, tr>>
    /\ UNCHANGED <<mounted, call, form, auth, authClient>>

\* lines 91-100 and, when no price is needed or a read failed, 104-108
DashJoin ==
    /\ dash.pc = "reads"
    /\ dash.profilesRes.status # "pending" /\ dash.transactionsRes.status # "pending"
    /\ IF dash.profilesRes.status = "error" \/ dash.transactionsRes.status = "error"
       THEN /\ loading' = setState(loading, FALSE)
            /\ dash' = [dash EXCEPT !.pc = "done"]
            /\ UNCHANGED <<profiles, transactions>>
       ELSE /\ profiles' = setState(profiles, dash.profilesRes.data)
            /\ transactions' = setState(transactions, dash.transactionsRes.data)
            /\ IF Len(uniqueAssets(dash.transactionsRes.data)) > 0
               THEN /\ dash' = [dash EXCEPT !.pc = "prices"]
                    /\ UNCHANGED loading
               ELSE /\ dash' = [dash EXCEPT !.pc = "done"]
                    /\ loading' = setState(loading, FALSE)
    /\ UNCHANGED <<profilesTbl, ledger, prices, cprofiles, selectedProfile, cc, dw, tr>>
    /\ UNCHANGED <<mounted, call, form, auth, authClient>>

\* lines 101-102 and 106-108: the price fetch settles
DashPrices ==
    /\ dash.pc = "prices"
    /\ \E resp \in OracleResponses(requestedIds(uniqueAssets(dash.transactionsRes.data))) :
          prices' = setState(prices,
                       fetchCryptoPrices(uniqueAssets(dash.transactionsRes.data), resp))
    /\ loading' = setState(loading, FALSE)
    /\ dash' = [dash EXCEPT !.pc = "done"]
    /\ UNCHANGED <<profilesTbl, ledger, profiles, transactions,
                   cprofiles, selectedProfile, cc, dw, tr>>
    /\ UNCHANGED <<mounted, call, form, auth, authClient>>

\* the route changes while the dashboard is shown: the component unmounts;
\* the effect of lines 84-112 registers no cleanup, so fetchData runs on
DashUnmount ==
    /\ mounted
    /\ mounted' = FALSE
    /\ UNCHANGED <<profilesTbl, ledger, profiles, transactions, prices, loading, dash,
                   cprofiles, selectedProfile, cc, dw, tr, call,
                   form, auth, authClient>>

-----------------------------------------------------------------------------
(* ClientsPage (Dashboard.tsx 477-596) *)

\* what the forms are given in the model
DepositInputs == {R(100)}
clientName(k) == CASE k = 1 -> "Ana" [] k = 2 -> "Ben" [] k = 3 -> "Cy" [] OTHER -> "Dee"

ccIdle == [pc |-> "idle", profileId |-> 0, initialDeposit |-> Zero]
dwIdle == [pc |-> "idle", profileId |-> 0, transaction_type |-> "DEPOSIT", amount |-> Zero]

\* lines 501-510, run by the mount effect 512-514: on an error the list stays
ClientsFetchProfiles ==
    /\ \E ok \in BOOLEAN :
          cprofiles' = IF ok THEN profilesNewestFirst(profilesTbl) ELSE cprofiles
    /\ UNCHANGED <<profilesTbl, ledger, profiles, transactions, prices, loading,
                   dash, selectedProfile, cc, dw, tr>>
    /\ UNCHANGED <<mounted, call, form, auth, authClient>>

\* lines 557-561
handleDepositWithdrawClick ==
    /\ dw.pc = "idle"
    /\ \E i \in 1..Len(cprofiles) : selectedProfile' = cprofiles[i].id
    /\ UNCHANGED <<profilesTbl, ledger, profiles, transactions, prices, loading,
                   dash, cprofiles, cc, dw, tr>>
    /\ UNCHANGED <<mounted, call, form, auth, authClient>>

\* lines 516-534: the form is submitted and the store answers the profile
\* insert (insert and select are one statement: the row is created and
\* returned, or an error comes back and no row exists; both throws, lines
\* 531 and 532, end the handler in the catch)
CreateInsertProfile ==
    /\ cc.pc = "idle"
    /\ Len(profilesTbl) < MaxProfiles
    /\ \E initialDeposit \in {a \in DepositInputs : amountValid(a)} :
          LET newProfilePayload ==
                  [name |-> clientName(Len(profilesTbl) + 1),
                   total_deposited_usd |-> initialDeposit]
          IN  \/ /\ profilesTbl' = insertProfile(profilesTbl, newProfilePayload)
                 /\ cc' = [pc |-> "insertTx", profileId |-> Len(profilesTbl) + 1,
                           initialDeposit |-> initialDeposit]
              \/ /\ cc' = ccIdle
                 /\ UNCHANGED profilesTbl
    /\ UNCHANGED <<ledger, profiles, transactions, prices, loading, dash,
                   cprofiles, selectedProfile, dw, tr>>
    /\ UNCHANGED <<mounted, call, form, auth, authClient>>

\* lines 536-549: the store answers the insert of the first DEPOSIT
CreateInsertTx ==
    /\ cc.pc = "insertTx"
    /\ \/ /\ Len(ledger) < MaxLedger
          /\ \E ts \in nowChoices(ledger) :
                ledger' = insertTransaction(ledger,
                              cashPayload(cc.profileId, "DEPOSIT", cc.initialDeposit), ts)
          /\ cc' = [cc EXCEPT !.pc = "refetch"]
       \/ /\ cc' = ccIdle
          /\ UNCHANGED ledger
    /\ UNCHANGED <<profilesTbl, profiles, transactions, prices, loading, dash,
                   cprofiles, selectedProfile, dw, tr>>
    /\ UNCHANGED <<mounted, call, form, auth, authClient>>

\* line 550: await fetchProfiles()
CreateRefetch ==
    /\ cc.pc = "refetch"
    /\ \E ok \in BOOLEAN :
          cprofiles' = IF ok THEN profilesNewestFirst(profilesTbl) ELSE cprofiles
    /\ cc' = ccIdle
    /\ UNCHANGED <<profilesTbl, ledger, profiles, transactions, prices, loading,
                   dash, selectedProfile, dw, tr>>
    /\ UNCHANGED <<mounted, call, form, auth, authClient>>

\* lines 563-579: the form is submitted for the selected client and the store
\* answers the transaction insert
DWInsertTx ==
    /\ dw.pc = "idle"
    /\ selectedProfile # 0
    /\ \E type \in {"DEPOSIT", "WITHDRAW"},
          amount \in {a \in DepositInputs : amountValid(a)} :
          \/ /\ Len(ledger) < MaxLedger
             /\ \E ts \in nowChoices(ledger) :
                   ledger' = insertTransaction(ledger,
                                 cashPayload(selectedProfile, type, amount), ts)
             /\ dw' = [pc |-> "rpc", profileId |-> selectedProfile,
                       transaction_type |-> type, amount |-> amount]
          \/ /\ dw' = dwIdle
             /\ UNCHANGED ledger
    /\ UNCHANGED <<profilesTbl, profiles, transactions, prices, loading, dash,
                   cprofiles, selectedProfile, cc, tr>>
    /\ UNCHANGED <<mounted, call, form, auth, authClient>>

\* lines 581-587: the store answers update_client_deposit
DWRpc ==
    /\ dw.pc = "rpc"
    /\ LET amountToUpdate == IF dw.transaction_type = "DEPOSIT"
                             THEN dw.amount ELSE RNeg(dw.amount)
       IN  \/ /\ profilesTbl' = update_client_deposit(profilesTbl, dw.profileId,
                                                      amountToUpdate)
              /\ dw' = [dw EXCEPT !.pc = "refetch"]
           \/ /\ dw' = dwIdle
              /\ UNCHANGED profilesTbl
    /\ UNCHANGED <<ledger, profiles, transactions, prices, loading, dash,
                   cprofiles, selectedProfile, cc, tr>>
    /\ UNCHANGED <<mounted, call, form, auth, authClient>>

\* line 591: await fetchProfiles()
DWRefetch ==
    /\ dw.pc = "refetch"
    /\ \E ok \in BOOLEAN :
          cprofiles' = IF ok THEN profilesNewestFirst(profilesTbl) ELSE cprofiles
    /\ dw' = dwIdle
    /\ UNCHANGED <<profilesTbl, ledger, profiles, transactions, prices, loading,
                   dash, selectedProfile, cc, tr>>
    /\ UNCHANGED <<mounted, call, form, auth, authClient>>

-----------------------------------------------------------------------------
(* TradesPage (Trades.tsx 82-138) *)

\* what the trade form is given in the model: the symbol as typed, and
\* (amount, price) pairs giving quantities 1, 1 and 2
TradeAmounts == {<<R(100), R(100)>>, <<R(150), R(150)>>, <<R(200), R(100)>>}
TradeForms ==
    {[transaction_type |-> ty, asset |-> a,
      transaction_value_usd |-> vp[1], price_per_asset_usd |-> vp[2]] :
        ty \in {"BUY", "SELL"}, a \in {"btc", "xyz", "usd"}, vp \in TradeAmounts}

\* the forms submitted while the write path is explored
SubmittedForms == {f \in TradeForms : f.asset = "btc" /\ f.transaction_value_usd = R(100)}

\* Trades.tsx 116-128: the form is submitted and the store answers the insert
TradeInsert ==
    /\ tr = "idle"
    /\ \E values \in {f \in SubmittedForms : tradeFormSchema(f)} :
          \/ /\ Len(ledger) < MaxLedger
             /\ \E ts \in nowChoices(ledger) :
                   ledger' = insertTransaction(ledger, transactionPayload(values), ts)
             /\ tr' = "refetch"
          \/ /\ tr' = "idle"
             /\ UNCHANGED ledger
    /\ UNCHANGED <<profilesTbl, profiles, transactions, prices, loading, dash,
                   cprofiles, selectedProfile, cc, dw>>
    /\ UNCHANGED <<mounted, call, form, auth, authClient>>

\* Trades.tsx 129-133: the dialog closes and the page reloads its list of
\* recent trades (a view of the ledger that nothing else reads)
TradeRefetch ==
    /\ tr = "refetch"
    /\ tr' = "idle"
    /\ UNCHANGED <<profilesTbl, ledger, profiles, transactions, prices, loading,
                   dash, cprofiles, selectedProfile, cc, dw>>
    /\ UNCHANGED <<mounted, call, form, auth, authClient>>

\* Trades.tsx 74-79
defaultFormValues ==
    [transaction_type |-> "BUY", asset |-> "",
     transaction_value_usd |-> Zero, price_per_asset_usd |-> Zero]

\* useForm (Trades.tsx 86-89): the values held and whether the last
\* submission was rejected by the resolver
formInit == [values |-> defaultFormValues, errors |-> FALSE]

\* what the fields of the trade form are filled with in the model: amounts
\* and prices on both sides of 0
FilledAmounts == {RNeg(R(100)), Zero, R(100), R(150)}
FilledPrices == {RNeg(R(100)), Zero, R(100), R(150)}
FilledForms ==
    {[transaction_type |-> ty, asset |-> "btc",
      transaction_value_usd |-> v, price_per_asset_usd |-> p] :
        ty \in {"BUY", "SELL"}, v \in FilledAmounts, p \in FilledPrices}

\* Trades.tsx 162-221: the fields of the open dialog are edited
TradeFill ==
    /\ tr = "idle"
    /\ \E values \in FilledForms : form' = [form EXCEPT !.values = values]
    /\ UNCHANGED <<profilesTbl, ledger, profiles, transactions, prices, loading, dash,
                   cprofiles, selectedProfile, cc, dw, tr, mounted, call, auth,
                   authClient>>

\* Trades.tsx 161 and 116-136: form.handleSubmit runs the resolver and calls
\* onSubmit only with values the schema accepts; the store answers the insert
TradeSubmit ==
    /\ tr = "idle"
    /\ IF ~tradeFormSchema(form.values)
       THEN /\ form' = [form EXCEPT !.errors = TRUE]
            /\ UNCHANGED <<ledger, tr>>
       ELSE \/ /\ Len(ledger) < MaxLedger
               /\ \E ts \in nowChoices(ledger) :
                     ledger' = insertTransaction(ledger, transactionPayload(form.values), ts)
               /\ form' = formInit
               /\ tr' = "refetch"
            \/ /\ form' = [form EXCEPT !.errors = FALSE]
               /\ UNCHANGED <<ledger, tr>>
    /\ UNCHANGED <<profilesTbl, profiles, transactions, prices, loading, dash,
                   cprofiles, selectedProfile, cc, dw, mounted, call, auth, authClient>>

\* the trades page alone, its form filled and submitted
FormNext == TradeFill \/ TradeSubmit \/ TradeRefetch

-----------------------------------------------------------------------------
(* AuthProvider (Dashboard.tsx 794-844) *)

\* sessions the auth client can hold: 1 and 2 are sessions of user 1 (the
\* second a refreshed token), 3 is a session of user 2
NoSession == 0
NoUser == 0
Sessions == {1, 2, 3}
MaxAuthEvents == 3

\* session?.user ?? null (lines 803 and 811)
userOf(session) ==
    CASE session = NoSession -> NoUser
      [] session \in {1, 2} -> 1
      [] OTHER -> 2

\* lines 795-797, the effect of lines 799-817 not yet run
authInit ==
    [session |-> NoSession, user |-> NoUser, loading |-> TRUE,
     pc |-> "start", result |-> NoSession, listening |-> FALSE, mounted |-> TRUE]

\* the client before any event: heard tells whether the provider's listener
\* was given an event, last the session that event carried
authClientInit == [session |-> NoSession, events |-> 0, heard |-> FALSE, last |-> NoSession]

\* setSession and setUser of lines 802-803 and 810-811, no-ops once the
\* provider is unmounted
setAuthSession(a, session) ==
    IF a.mounted THEN [a EXCEPT !.session = session, !.user = userOf(session)] ELSE a

\* lines 799-812: the effect calls getSession() and subscribes the listener
AuthEffect ==
    /\ auth.pc = "start"
    /\ auth' = [auth EXCEPT !.pc = "pending", !.listening = TRUE]
    /\ UNCHANGED <<profilesTbl, ledger, profiles, transactions, prices, loading, dash,
                   cprofiles, selectedProfile, cc, dw, tr, mounted, call, form,
                   authClient>>

\* line 801: the client reads its session and resolves the promise
AuthGetSessionSettle ==
    /\ auth.pc = "pending"
    /\ auth' = [auth EXCEPT !.pc = "settled", !.result = authClient.session]
    /\ UNCHANGED <<profilesTbl, ledger, profiles, transactions, prices, loading, dash,
                   cprofiles, selectedProfile, cc, dw, tr, mounted, call, form,
                   authClient>>

\* lines 801-804: getSession resumes after its await
AuthGetSessionResume ==
    /\ auth.pc = "settled"
    /\ auth' = [setAuthSession(auth, auth.result) EXCEPT
                   !.loading = IF auth.mounted THEN FALSE ELSE @,
                   !.pc = "done"]
    /\ UNCHANGED <<profilesTbl, ledger, profiles, transactions, prices, loading, dash,
                   cprofiles, selectedProfile, cc, dw, tr, mounted, call, form,
                   authClient>>

\* a sign-in, sign-out or token refresh changes the client's session and the
\* client calls the subscribed listener (lines 809-812) with it
AuthStateChange ==
    /\ authClient.events < MaxAuthEvents
    /\ \E session \in ({NoSession} \cup Sessions) \ {authClient.session} :
          /\ authClient' = [session |-> session,
                            events |-> authClient.events + 1,
                            heard |-> authClient.heard \/ auth.listening,
                            last |-> IF auth.listening THEN session ELSE authClient.last]
          /\ auth' = IF auth.listening THEN setAuthSession(auth, session) ELSE auth
    /\ UNCHANGED <<profilesTbl, ledger, profiles, transactions, prices, loading, dash,
                   cprofiles, selectedProfile, cc, dw, tr, mounted, call, form>>

\* lines 814-816: the provider unmounts and the effect's cleanup unsubscribes
AuthUnmount ==
    /\ auth.mounted /\ auth.pc # "start"
    /\ auth' = [auth EXCEPT !.mounted = FALSE, !.listening = FALSE]
    /\ UNCHANGED <<profilesTbl, ledger, profiles, transactions, prices, loading, dash,
                   cprofiles, selectedProfile, cc, dw, tr, mounted, call, form,
                   authClient>>

AuthNext ==
    \/ AuthEffect
    \/ AuthGetSessionSettle
    \/ AuthGetSessionResume
    \/ AuthStateChange
    \/ AuthUnmount

-----------------------------------------------------------------------------
(* The application: store, dashboard fetch pass and write path *)

Init ==
    /\ profilesTbl = <<>>
    /\ ledger = <<>>
    /\ profiles = <<>>
    /\ transactions = <<>>
    /\ prices = emptyMap
    /\ loading = TRUE
    /\ dash = dashInit
    /\ cprofiles = <<>>
    /\ selectedProfile = 0
    /\ cc = ccIdle
    /\ dw = dwIdle
    /\ tr = "idle"
    /\ mounted = TRUE
    /\ form = formInit
    /\ auth = authInit
    /\ authClient = authClientInit
    /\ call = callIdle

Next ==
    \/ DashStart
    \/ DashSelectProfiles
    \/ DashSelectTransactions
    \/ DashJoin
    \/ DashPrices
    \/ ClientsFetchProfiles
    \/ handleDepositWithdrawClick
    \/ CreateInsertProfile
    \/ CreateInsertTx
    \/ CreateRefetch
    \/ DWInsertTx
    \/ DWRpc
    \/ DWRefetch
    \/ TradeInsert
    \/ TradeRefetch

Spec == Init /\ [][Next]_vars

\* the write path and the clients page alone, the dashboard not yet mounted
WriteNext ==
    \/ ClientsFetchProfiles
    \/ handleDepositWithdrawClick
    \/ CreateInsertProfile
    \/ CreateInsertTx
    \/ CreateRefetch
    \/ DWInsertTx
    \/ DWRpc
    \/ DWRefetch
    \/ TradeInsert
    \/ TradeRefetch

WriteSpec == Init /\ [][WriteNext]_vars

\* the trades page alone
FormSpec == Init /\ [][FormNext]_vars

\* the provider alone, over a client that may hold a session kept from an
\* earlier visit
AuthInit ==
    /\ \E session \in {NoSession} \cup Sessions :
          authClient = [authClientInit EXCEPT !.session = session]
    /\ auth = authInit
    /\ form = formInit
    /\ profilesTbl = <<>>
    /\ ledger = <<>>
    /\ profiles = <<>>
    /\ transactions = <<>>
    /\ prices = emptyMap
    /\ loading = TRUE
    /\ dash = dashInit
    /\ cprofiles = <<>>
    /\ selectedProfile = 0
    /\ cc = ccIdle
    /\ dw = dwIdle
    /\ tr = "idle"
    /\ mounted = TRUE
    /\ call = callIdle

AuthSpec == AuthInit /\ [][AuthNext]_vars

-----------------------------------------------------------------------------
(* The accounting engine on its own: a fetch pass whose two selects have    *)
(* been answered with any profile list and any transaction list the write   *)
(* path can have produced, in any row order.                                *)

\* created_at values of the rows handed to the engine
Times == {1, 2}

\* the rows a select of the ledger may hold: cash movements of two clients
\* and trades entered through the trade form
EngineCash ==
    {cashPayload(1, "DEPOSIT", R(100)), cashPayload(2, "DEPOSIT", R(100)),
     cashPayload(1, "WITHDRAW", R(100))}

EngineForms ==
    {f \in TradeForms : tradeFormSchema(f)
        /\ (f.asset = "btc" \/ f.transaction_value_usd = R(100))}

EngineRows ==
    {[payload |-> p, ts |-> 1] : p \in EngineCash} \cup
    {[payload |-> transactionPayload(f), ts |-> t] : f \in EngineForms, t \in Times}

RECURSIVE rowsOf(_)
rowsOf(drawn) ==
    IF Len(drawn) = 0 THEN <<>>
    ELSE insertTransaction(rowsOf(SubSeq(drawn, 1, Len(drawn) - 1)),
                           drawn[Len(drawn)].payload, drawn[Len(drawn)].ts)

\* the profile lists a select of the profiles may hold
EngineProfiles ==
    {<<[id |-> 1, name |-> clientName(1)], [id |-> 2, name |-> clientName(2)]>>,
     <<[id |-> 2, name |-> clientName(2)], [id |-> 1, name |-> clientName(1)]>>}

EngineInit ==
    \E n \in 0..MaxTx :
      \E drawn \in [1..n -> EngineRows], profs \in EngineProfiles :
        /\ dash = [pc |-> "reads", profilesRes |-> okWith(profs),
                   transactionsRes |-> okWith(rowsOf(drawn))]
        /\ ledger = sortByCreatedAt(rowsOf(drawn))
        /\ profilesTbl = [i \in 1..2 |->
               [id |-> i, name |-> clientName(i),
                total_deposited_usd |->
                   RSub(RSumSeq(ValuesOf(SelectSeq(rowsOf(drawn), LAMBDA t :
                            t.transaction_type = "DEPOSIT" /\ t.profile_id = i))),
                        RSumSeq(ValuesOf(SelectSeq(rowsOf(drawn), LAMBDA t :
                            t.transaction_type = "WITHDRAW" /\ t.profile_id = i))))]]
        /\ profiles = <<>>
        /\ transactions = <<>>
        /\ prices = emptyMap
        /\ loading = TRUE
        /\ cprofiles = <<>>
        /\ selectedProfile = 0
        /\ cc = ccIdle
        /\ dw = dwIdle
        /\ tr = "idle"
        /\ mounted = TRUE
        /\ form = formInit
        /\ auth = authInit
        /\ authClient = authClientInit
        /\ call = callIdle

EngineNext == DashJoin \/ DashPrices

EngineSpec == EngineInit /\ [][EngineNext]_vars

-----------------------------------------------------------------------------
(* The engine over the ledgers of a young fund: deposits and first purchases *)

ScenarioCash ==
    {cashPayload(c, "DEPOSIT", d) : c \in {1, 2}, d \in {R(200), R(10000)}}

ScenarioForms ==
    {[transaction_type |-> "BUY", asset |-> a,
      transaction_value_usd |-> v[1], price_per_asset_usd |-> v[2]] :
        a \in {"btc", "xyz"}, v \in {<<R(100), R(100)>>, <<R(6000), R(60000)>>}}

ScenarioRows ==
    {[payload |-> p, ts |-> 1] : p \in ScenarioCash} \cup
    {[payload |-> transactionPayload(f), ts |-> 1] :
        f \in {g \in ScenarioForms : tradeFormSchema(g)}}

ScenarioInit ==
    \E n \in 0..MaxTx :
      \E drawn \in [1..n -> ScenarioRows], profs \in EngineProfiles :
        /\ dash = [pc |-> "reads", profilesRes |-> okWith(profs),
                   transactionsRes |-> okWith(rowsOf(drawn))]
        /\ ledger = rowsOf(drawn)
        /\ profilesTbl = [i \in 1..2 |->
               [id |-> i, name |-> clientName(i),
                total_deposited_usd |->
                   RSumSeq(ValuesOf(SelectSeq(rowsOf(drawn), LAMBDA t :
                            t.transaction_type = "DEPOSIT" /\ t.profile_id = i)))]]
        /\ profiles = <<>>
        /\ transactions = <<>>
        /\ prices = emptyMap
        /\ loading = TRUE
        /\ cprofiles = <<>>
        /\ selectedProfile = 0
        /\ cc = ccIdle
        /\ dw = dwIdle
        /\ tr = "idle"
        /\ mounted = TRUE
        /\ form = formInit
        /\ auth = authInit
        /\ authClient = authClientInit
        /\ call = callIdle

ScenarioNext == DashJoin \/ DashPrices

ScenarioSpec == ScenarioInit /\ [][ScenarioNext]_vars

-----------------------------------------------------------------------------
(* One fetch pass of a dashboard that may unmount, over the same ledgers *)

MountInit ==
    \E n \in 0..MaxTx :
      \E drawn \in [1..n -> ScenarioRows] :
        /\ dash = dashInit
        /\ ledger = rowsOf(drawn)
        /\ profilesTbl = [i \in 1..2 |->
               [id |-> i, name |-> clientName(i),
                total_deposited_usd |->
                   RSumSeq(ValuesOf(SelectSeq(rowsOf(drawn), LAMBDA t :
                            t.transaction_type = "DEPOSIT" /\ t.profile_id = i)))]]
        /\ profiles = <<>>
        /\ transactions = <<>>
        /\ prices = emptyMap
        /\ loading = TRUE
        /\ cprofiles = <<>>
        /\ selectedProfile = 0
        /\ cc = ccIdle
        /\ dw = dwIdle
        /\ tr = "idle"
        /\ mounted = TRUE
        /\ form = formInit
        /\ auth = authInit
        /\ authClient = authClientInit
        /\ call = callIdle

MountNext ==
    \/ DashStart
    \/ DashSelectProfiles
    \/ DashSelectTransactions
    \/ DashJoin
    \/ DashPrices
    \/ DashUnmount

MountSpec == MountInit /\ [][MountNext]_vars

\* a pass whose calls all settle: every select and the price fetch are
\* answered, and the code that awaits them is resumed
PassSettles ==
    /\ WF_vars(DashStart)
    /\ WF_vars(DashSelectProfiles)
    /\ WF_vars(DashSelectTransactions)
    /\ WF_vars(DashJoin)
    /\ WF_vars(DashPrices)

SettlingSpec == MountInit /\ [][MountNext]_vars /\ PassSettles

-----------------------------------------------------------------------------
(* fetchCryptoPrices (cryptoApi.ts 17-41) called with any list of symbols *)

MaxSymbols == 2

\* the symbols a caller may ask for, in either case
RequestSymbols == {"btc", "BTC", "eth", "xyz", "XYZ"}

SymbolLists == UNION {[1..n -> RequestSymbols] : n \in 0..MaxSymbols}

\* lines 18-19: the ids are looked up; with none the call resolves to {}
FetchIssue ==
    /\ call.pc = "start"
    /\ call' = IF requestedIds(call.assets) = {}
               THEN [call EXCEPT !.pc = "done", !.result = emptyMap]
               ELSE [call EXCEPT !.pc = "fetching"]
    /\ UNCHANGED <<profilesTbl, ledger, profiles, transactions, prices, loading, dash,
                   cprofiles, selectedProfile, cc, dw, tr, mounted,
                   form, auth, authClient>>

\* lines 21-40: the HTTP call settles and the call resolves
FetchSettle ==
    /\ call.pc = "fetching"
    /\ \E resp \in OracleResponses(requestedIds(call.assets)) :
          call' = [call EXCEPT !.pc = "done", !.resp = resp,
                               !.result = fetchCryptoPrices(call.assets, resp)]
    /\ UNCHANGED <<profilesTbl, ledger, profiles, transactions, prices, loading, dash,
                   cprofiles, selectedProfile, cc, dw, tr, mounted,
                   form, auth, authClient>>

OracleInit ==
    /\ \E assets \in SymbolLists : call = [callIdle EXCEPT !.pc = "start", !.assets = assets]
    /\ profilesTbl = <<>>
    /\ ledger = <<>>
    /\ profiles = <<>>
    /\ transactions = <<>>
    /\ prices = emptyMap
    /\ loading = TRUE
    /\ dash = dashInit
    /\ cprofiles = <<>>
    /\ selectedProfile = 0
    /\ cc = ccIdle
    /\ dw = dwIdle
    /\ tr = "idle"
    /\ mounted = TRUE
    /\ form = formInit
    /\ auth = authInit
    /\ authClient = authClientInit

OracleNext == FetchIssue \/ FetchSettle

OracleSpec == OracleInit /\ [][OracleNext]_vars

-----------------------------------------------------------------------------
(* Helpers of the properties *)

\* the fetch pass has finished and the list it delivered is not empty
Computed == ~loading /\ Len(transactions) > 0

\* sum of f over a finite set of indices
RECURSIVE SumIdx(_, _)
SumIdx(f, I) ==
    IF I = {} THEN Zero
    ELSE LET i == CHOOSE j \in I : TRUE
         IN  RAdd(f[i], SumIdx(f, I \ {i}))

Permuted(s, p) == [i \in 1..Len(s) |-> s[p[i]]]

TypesIn(txs) == {txs[i].transaction_type : i \in 1..Len(txs)}

\* +value for DEPOSIT and SELL, -value for WITHDRAW and BUY
SignedValue(t) ==
    IF t.transaction_type \in {"DEPOSIT", "SELL"}
    THEN t.transaction_value_usd ELSE RNeg(t.transaction_value_usd)

-----------------------------------------------------------------------------
(* C1: totalCash is the sum of the DEPOSIT values minus the WITHDRAW values
   minus the BUY values plus the SELL values, and every reordering of the
   transaction list gives the same totalCash. *)
C1_CashIsSignedSum ==
    ~loading =>
        /\ viewTotalCash =
              SumIdx([i \in 1..Len(transactions) |-> SignedValue(transactions[i])],
                     1..Len(transactions))
        /\ \A p \in Permutations(1..Len(transactions)) :
              totalCash(Permuted(transactions, p), loading) = viewTotalCash

\* a finished pass over a list holding cash coming in and going out
C1_Witness ==
    /\ ~loading
    /\ {"DEPOSIT", "BUY", "SELL"} \subseteq TypesIn(transactions)
    /\ transactions[1].transaction_type = "BUY"
    /\ viewTotalCash # Zero

(* C2: totalPortfolioValue is totalCash plus the marketValue of exactly the
   positions listed in assetHoldings. *)
C2_TotalIsCashPlusListed ==
    Computed =>
        viewTotalPortfolioValue =
            RAdd(viewTotalCash,
                 SumIdx([i \in 1..Len(viewAssetHoldings) |->
                            viewAssetHoldings[i].marketValue],
                        1..Len(viewAssetHoldings)))

\* one position listed, another (oversold, valued below zero) left out
C2_Witness ==
    /\ Computed
    /\ Len(viewAssetHoldings) = 1
    /\ \E i \in 1..Len(mappedHoldings(transactions, prices)) :
          /\ ~holdingListed(mappedHoldings(transactions, prices)[i])
          /\ mappedHoldings(transactions, prices)[i].marketValue # Zero

-----------------------------------------------------------------------------
(* Ownership and the write path *)

PctOf(breakdown) ==
    SumIdx([i \in 1..Len(breakdown) |-> breakdown[i].ownershipPercentage],
           1..Len(breakdown))

\* the DEPOSIT values minus the WITHDRAW values the rows record for a client
NetCapital(rows, pid) ==
    SumIdx([i \in 1..Len(rows) |->
               IF rows[i].profile_id = pid
                  /\ rows[i].transaction_type \in {"DEPOSIT", "WITHDRAW"}
               THEN SignedValue(rows[i]) ELSE Zero],
           1..Len(rows))

\* the net capital of all clients together
NetCapitalOfAll(rows) ==
    SumIdx([i \in 1..Len(rows) |->
               IF rows[i].profile_id # NoProfile
                  /\ rows[i].transaction_type \in {"DEPOSIT", "WITHDRAW"}
               THEN SignedValue(rows[i]) ELSE Zero],
           1..Len(rows))

(* C3: whenever at least one listed profile has positive deposits, the
   ownershipPercentage values of all entries of clientBreakdown sum to 100. *)
C3_OwnershipSumsTo100 ==
    (/\ Computed
     /\ \E i \in 1..Len(profiles) : RPos(clientDeposits(transactions, profiles[i].id)))
    => PctOf(viewClientBreakdown) = R(100)

(* C4: each client's ownershipPercentage is its net contributed capital
   (deposits minus withdrawals) divided by the net capital of all clients,
   times 100, and 0 when that total is not positive. *)
C4_OwnershipIsNetCapitalShare ==
    Computed =>
        \A i \in 1..Len(profiles) :
            ownershipPercentage(transactions, profiles[i].id) =
                IF RPos(NetCapitalOfAll(transactions))
                THEN RMul(RDiv(NetCapital(transactions, profiles[i].id),
                               NetCapitalOfAll(transactions)), R(100))
                ELSE Zero

\* no write-path call is between two of its store calls
Quiescent == cc.pc = "idle" /\ dw.pc = "idle" /\ tr = "idle"

(* C5: whenever no write-path operation is in progress, every profile's
   total_deposited_usd is the sum of its DEPOSIT rows minus the sum of its
   WITHDRAW rows in the ledger. *)
C5_TotalsAgreeWithLedger ==
    Quiescent =>
        \A i \in 1..Len(profilesTbl) :
            profilesTbl[i].total_deposited_usd = NetCapital(ledger, profilesTbl[i].id)

\* a deposit/withdraw submission has appended its row and not yet updated
\* the client's total
SubmissionHalfDone == dw.pc = "rpc"

\* the store serves a read that delivers the ledger to the dashboard
ReaderSeesLedger == DashSelectTransactions /\ dash'.transactionsRes.status = "ok"

\* the store serves a read that delivers the clients' totals to the clients page
ReaderSeesTotals ==
    /\ ClientsFetchProfiles \/ CreateRefetch
    /\ cprofiles' = profilesNewestFirst(profilesTbl)

(* C6: a deposit/withdraw submission appends its transaction and updates the
   profile's total as one atomic step: no read is served between the two, so
   no reader sees the row in the ledger without the total reflecting it. *)
C6_SubmissionIsAtomic ==
    [][(ReaderSeesLedger \/ ReaderSeesTotals) => ~SubmissionHalfDone]_vars

(* C7: every step of the write path leaves the rows already in the ledger in
   place and unchanged; rows are only appended. *)
C7_LedgerAppendOnly ==
    [][/\ Len(ledger') >= Len(ledger)
       /\ \A i \in 1..Len(ledger) : ledger'[i] = ledger[i]]_vars

\* two operations have appended a row each and a third call has failed
C7_Witness ==
    /\ Len(ledger) = 2
    /\ ledger[1].transaction_type = "DEPOSIT"
    /\ ledger[2].transaction_type \in {"BUY", "SELL"}
    /\ Len(profilesTbl) = 2
    /\ NetCapital(ledger, 2) = Zero
    /\ Quiescent

-----------------------------------------------------------------------------
(* Valuation and realized P&L *)

\* total USD spent on the BUYs of an asset over the total quantity bought
AvgBuyCost(txs, asset) ==
    LET I == {i \in 1..Len(txs) : txs[i].asset = asset /\ txs[i].transaction_type = "BUY"}
        spent == SumIdx([i \in 1..Len(txs) |-> txs[i].transaction_value_usd], I)
        bought == SumIdx([i \in 1..Len(txs) |-> txs[i].asset_quantity], I)
    IN  IF RPos(bought) THEN RDiv(spent, bought) ELSE Zero

Unpriced(h) == toLowerCase(h.name) \notin DOMAIN prices

(* C8 as stated: a held asset whose symbol is absent from the price map has
   marketValue 0. *)
C8_MissingPriceIsZero ==
    Computed =>
        \A i \in 1..Len(viewAssetHoldings) :
            Unpriced(viewAssetHoldings[i]) => viewAssetHoldings[i].marketValue = Zero

(* C8 as amended: a held asset whose symbol is absent from the price map is
   valued at its average purchase price: marketValue is the quantity held
   times (USD spent on its BUYs / quantity bought). *)
C8_MissingPriceIsCostBasis ==
    Computed =>
        \A i \in 1..Len(viewAssetHoldings) :
            Unpriced(viewAssetHoldings[i]) =>
                viewAssetHoldings[i].marketValue =
                    RMul(viewAssetHoldings[i].quantity,
                         AvgBuyCost(transactions, viewAssetHoldings[i].name))

\* an asset with a quoted price and an asset without one are both held
C8_Witness ==
    /\ Computed
    /\ Len(viewAssetHoldings) = 2
    /\ \E i, j \in 1..2 :
          /\ Unpriced(viewAssetHoldings[i]) /\ RPos(viewAssetHoldings[i].marketValue)
          /\ ~Unpriced(viewAssetHoldings[j])

\* the indices of the list in creation-time order, ties in list order
ChronOrder(txs) ==
    CHOOSE p \in Permutations(1..Len(txs)) :
        \A i, j \in 1..Len(txs) :
            i < j => \/ txs[p[i]].created_at < txs[p[j]].created_at
                     \/ /\ txs[p[i]].created_at = txs[p[j]].created_at
                        /\ p[i] < p[j]

Chron(txs) == Permuted(txs, ChronOrder(txs))

\* quantity of the asset the tracker is running with after the first k rows:
\* a BUY adds its quantity, a SELL met with a positive quantity takes its own
\* away (anything below the dust threshold becoming 0), nothing else counts
RECURSIVE RunningQty(_, _, _)
RunningQty(chron, k, asset) ==
    IF k = 0 THEN Zero
    ELSE LET prev == RunningQty(chron, k - 1, asset)
             t == chron[k]
         IN  IF t.asset # asset THEN prev
             ELSE IF t.transaction_type = "BUY" THEN RAdd(prev, t.asset_quantity)
             ELSE IF t.transaction_type = "SELL" /\ RPos(prev)
                  THEN IF RLtInv(RSub(prev, t.asset_quantity), ReplayDustInv)
                       THEN Zero ELSE RSub(prev, t.asset_quantity)
             ELSE prev

\* the k-th row is a sale of a non-cash asset met with a positive quantity
RecordedSale(chron, k) ==
    /\ chron[k].transaction_type = "SELL"
    /\ chron[k].asset # "USD"
    /\ RPos(RunningQty(chron, k - 1, chron[k].asset))

\* the labels of the recorded sales among the first k rows, in order
RECURSIVE SaleLabels(_, _)
SaleLabels(chron, k) ==
    IF k = 0 THEN <<>>
    ELSE IF RecordedSale(chron, k)
         THEN Append(SaleLabels(chron, k - 1), <<chron[k].asset, chron[k].created_at>>)
         ELSE SaleLabels(chron, k - 1)

(* C9: the tracker emits exactly one record for each non-USD SELL whose asset
   has a positive running quantity at the moment of the sale and none for any
   other row; the records are in non-decreasing created_at order, whatever
   the order of the list. *)
C9_OneRecordPerCoveredSale ==
    Computed =>
        LET out == viewRealizedPnLData
        IN  /\ [i \in 1..Len(out) |-> out[i].x]
                  = SaleLabels(Chron(transactions), Len(transactions))
            /\ \A i, j \in 1..Len(out) : i < j => out[i].x[2] <= out[j].x[2]

\* a list that is not in creation order, with one sale recorded and one not
C9_Witness ==
    /\ Computed
    /\ Len(viewRealizedPnLData) = 1
    /\ Len(transactions) = 3
    /\ transactions[1].transaction_type = "SELL" /\ transactions[1].asset = "BTC"
    /\ transactions[1].created_at = 2
    /\ transactions[2].transaction_type = "BUY" /\ transactions[2].asset = "BTC"
    /\ transactions[2].created_at = 1
    /\ transactions[3].transaction_type = "SELL" /\ transactions[3].asset = "XYZ"

\* the state of the replay after the first k rows in creation order
ReplayAfter(k) == replay(SubSeq(sortedTransactions(transactions), 1, k))

\* BUY 1 unit @ 100, then SELL 1 unit @ 150
C10_Scenario ==
    /\ Len(transactions) = 2
    /\ transactions[1].transaction_type = "BUY" /\ transactions[1].asset = "BTC"
    /\ transactions[1].asset_quantity = R(1)
    /\ transactions[1].transaction_value_usd = R(100)
    /\ transactions[2].transaction_type = "SELL" /\ transactions[2].asset = "BTC"
    /\ transactions[2].asset_quantity = R(1)
    /\ transactions[2].transaction_value_usd = R(150)
    /\ transactions[1].created_at <= transactions[2].created_at

(* C10: a SELL met with positive running quantity and cost emits
   (value - costOfSold) / costOfSold * 100 with costOfSold = quantity sold *
   (running cost / running quantity) as they were before the sale; a SELL of
   the whole running quantity leaves quantity and cost 0; BUY 1 @ 100 then
   SELL 1 @ 150 gives one record of 50. *)
C10_PnlPercentOfSale ==
    Computed =>
        /\ \A k \in 1..Len(transactions) :
              LET t == sortedTransactions(transactions)[k]
                  before == ReplayAfter(k - 1)
                  after == ReplayAfter(k)
                  held == before.runningCosts[t.asset]
                  costOfSold == RMul(t.asset_quantity,
                                     RDiv(held.totalCost, held.totalQuantity))
              IN  (/\ t.transaction_type = "SELL" /\ t.asset # "USD"
                   /\ RPos(held.totalQuantity) /\ RPos(held.totalCost))
                  => /\ Len(after.out) = Len(before.out) + 1
                     /\ after.out[Len(after.out)].y =
                           RMul(RDiv(RSub(t.transaction_value_usd, costOfSold),
                                     costOfSold), R(100))
                     /\ t.asset_quantity = held.totalQuantity =>
                           after.runningCosts[t.asset] =
                               [totalQuantity |-> Zero, totalCost |-> Zero]
        /\ C10_Scenario =>
              /\ [i \in 1..Len(viewRealizedPnLData) |-> viewRealizedPnLData[i].y] = <<R(50)>>
              /\ ReplayAfter(2).runningCosts["BTC"] =
                    [totalQuantity |-> Zero, totalCost |-> Zero]

\* the scenario has been computed
C10_Witness == Computed /\ C10_Scenario

-----------------------------------------------------------------------------
(* Sales without a purchase, split purchases and oversold ledgers *)

\* the list without its k-th row
Without(s, k) == SubSeq(s, 1, k - 1) \o SubSeq(s, k + 1, Len(s))

\* no BUY of the asset was created up to the creation time given
NoBuyUpTo(txs, asset, time) ==
    \A i \in 1..Len(txs) :
        (txs[i].asset = asset /\ txs[i].transaction_type = "BUY")
            => txs[i].created_at > time

\* the ledger holds no BUY of the asset
NoBuyOf(txs, asset) ==
    \A i \in 1..Len(txs) :
        txs[i].asset = asset => txs[i].transaction_type # "BUY"

(* C11: a SELL of an asset with no BUY before it raises totalCash by its
   value and is given no realized-P&L record; while the ledger holds no BUY
   of the asset, the asset is not among assetHoldings and the sale changes
   totalPortfolioValue by its cash value only. *)
C11_SaleWithoutPurchase ==
    Computed =>
        \A k \in 1..Len(transactions) :
            LET t == transactions[k]
                rest == Without(transactions, k)
            IN  (/\ t.transaction_type = "SELL" /\ t.asset # "USD"
                 /\ NoBuyUpTo(transactions, t.asset, t.created_at))
                => /\ viewTotalCash = RAdd(totalCash(rest, loading), t.transaction_value_usd)
                   /\ \A i \in 1..Len(viewRealizedPnLData) :
                         viewRealizedPnLData[i].x # <<t.asset, t.created_at>>
                   /\ NoBuyOf(transactions, t.asset) =>
                         /\ \A i \in 1..Len(viewAssetHoldings) :
                               viewAssetHoldings[i].name # t.asset
                         /\ viewTotalPortfolioValue =
                               RAdd(totalPortfolioValue(rest, prices, loading),
                                    t.transaction_value_usd)

\* an asset sold and never bought, next to a position that is held
C11_Witness ==
    /\ Computed
    /\ \E k \in 1..Len(transactions) :
          /\ transactions[k].transaction_type = "SELL"
          /\ transactions[k].asset = "XYZ"
    /\ NoBuyOf(transactions, "XYZ")
    /\ Len(viewAssetHoldings) = 1
    /\ viewAssetHoldings[1].name = "BTC"

\* the shares (of the quantity, of the value) the first of two BUYs takes
SplitShares == {<<RDiv(R(1), R(2)), RDiv(R(1), R(2))>>,
                <<RDiv(R(1), R(4)), RDiv(R(1), R(2))>>}

\* a row taking a share of the quantity and a share of the value of a BUY
PartOf(t, newId, qShare, vShare) ==
    [t EXCEPT !.id = newId,
              !.asset_quantity = RMul(t.asset_quantity, qShare),
              !.transaction_value_usd = RMul(t.transaction_value_usd, vShare),
              !.price_per_asset_usd =
                  RDiv(RMul(t.transaction_value_usd, vShare),
                       RMul(t.asset_quantity, qShare))]

\* the list with its k-th row replaced by two rows that add up to it
SplitBuy(txs, k, share) ==
    SubSeq(txs, 1, k - 1)
      \o <<PartOf(txs[k], txs[k].id, share[1], share[2]),
           PartOf(txs[k], Len(txs) + 1, RSub(R(1), share[1]), RSub(R(1), share[2]))>>
      \o SubSeq(txs, k + 1, Len(txs))

(* C12: replacing a BUY by two BUYs of the same asset, created at the same
   time, whose quantities and values add up to the original's leaves the
   quantity held, the weighted-average cost basis, the listed holdings and
   every realized pnlPercent unchanged. *)
C12_SplitBuyChangesNothing ==
    Computed =>
        \A k \in 1..Len(transactions), share \in SplitShares :
            LET t == transactions[k]
                split == SplitBuy(transactions, k, share)
            IN  (t.transaction_type = "BUY" /\ t.asset # "USD")
                => /\ cryptoHoldingsMap(split, t.asset)
                         = cryptoHoldingsMap(transactions, t.asset)
                   /\ costBasisMap(split, t.asset) = costBasisMap(transactions, t.asset)
                   /\ assetHoldings(split, prices, loading) = viewAssetHoldings
                   /\ realizedPnLData(split, loading) = viewRealizedPnLData

\* a BUY at one price, a BUY at another and a sale recorded after them
C12_Witness ==
    /\ Computed
    /\ Len(transactions) = 3
    /\ transactions[1].transaction_type = "BUY" /\ transactions[1].asset = "BTC"
    /\ transactions[2].transaction_type = "BUY" /\ transactions[2].asset = "BTC"
    /\ transactions[1].price_per_asset_usd # transactions[2].price_per_asset_usd
    /\ transactions[3].transaction_type = "SELL" /\ transactions[3].asset = "BTC"
    /\ Len(viewRealizedPnLData) = 1
    /\ Unpriced(viewAssetHoldings[1])

\* quantity of the asset the rows of the given type move among the first k rows
MovedQty(rows, k, asset, type) ==
    SumIdx([i \in 1..Len(rows) |-> rows[i].asset_quantity],
           {i \in 1..k : rows[i].asset = asset /\ rows[i].transaction_type = type})

\* per asset and in creation order, no more has been sold than bought
NeverOversold(txs) ==
    \A k \in 1..Len(txs), i \in 1..Len(txs) :
        ~RLt(MovedQty(Chron(txs), k, txs[i].asset, "BUY"),
             MovedQty(Chron(txs), k, txs[i].asset, "SELL"))

(* C13: in a ledger where, per asset and in creation order, the quantity sold
   never exceeds the quantity bought so far, the folded quantity held of
   every asset is at least 0. *)
C13_NoOversellNoNegative ==
    (Computed /\ NeverOversold(transactions)) =>
        \A i \in 1..Len(mappedHoldings(transactions, prices)) :
            ~RLt(mappedHoldings(transactions, prices)[i].quantity, Zero)

\* part of a position sold, the list not in creation order
C13_Witness ==
    /\ Computed /\ NeverOversold(transactions)
    /\ Len(transactions) = 3
    /\ transactions[1].transaction_type = "SELL" /\ transactions[1].asset = "BTC"
    /\ transactions[1].created_at = 2
    /\ transactions[2].created_at = 1
    /\ Len(viewAssetHoldings) = 1
    /\ viewAssetHoldings[1].quantity = R(1)

-----------------------------------------------------------------------------
(* Guards, failures and the price oracle *)

\* a number of the model that is neither NaN nor an infinity
Finite(a) == a[2] # 0

\* running totals the replay may meet a SELL with, a cost of 0 among them
CostSamples ==
    {[totalQuantity |-> q, totalCost |-> c] : q \in {R(1), R(2)}, c \in {Zero, R(100)}}

(* C14: no metric is the result of a division by zero: every number the
   dashboard derives is finite; ownershipPercentage is 0 when total deposits
   are 0, the average cost basis is 0 when no quantity was bought, a realized
   pnlPercent is 0 when the cost of the units sold is 0, and the return
   percentage is 0 when net deposits are not positive. *)
C14_NoDivisionByZero ==
    Computed =>
        LET held == viewAssetHoldings
            clients == viewClientBreakdown
            sales == viewRealizedPnLData
            total == totalDeposits(transactions)
        IN  /\ Finite(viewTotalPortfolioValue) /\ Finite(viewTotalCash)
            /\ Finite(viewAllTimePL) /\ Finite(plReturn)
            /\ \A i \in 1..Len(held) :
                  Finite(held[i].marketValue) /\ Finite(holdingShare(held[i]))
            /\ \A i \in 1..Len(clients) :
                  /\ Finite(clients[i].ownershipPercentage)
                  /\ Finite(clients[i].equityValue)
                  /\ total = Zero => clients[i].ownershipPercentage = Zero
            /\ \A i \in 1..Len(sales) : Finite(sales[i].y)
            /\ \A i \in 1..Len(transactions) :
                  LET t == transactions[i]
                  IN  t.asset # "USD" =>
                        /\ Finite(costBasisMap(transactions, t.asset))
                        /\ NoBuyOf(transactions, t.asset) =>
                              costBasisMap(transactions, t.asset) = Zero
                        /\ \A costs \in CostSamples :
                              /\ Finite(pnlPercentage(costs, t))
                              /\ costOfSoldAssets(costs, t) = Zero =>
                                    pnlPercentage(costs, t) = Zero
            /\ ~RPos(netDeposits(transactions)) => plReturn = Zero

\* a ledger of trades alone: no deposits, an asset sold and never bought
C14_Witness ==
    /\ Computed
    /\ totalDeposits(transactions) = Zero
    /\ Len(viewClientBreakdown) = 2
    /\ \E i \in 1..Len(transactions) :
          /\ transactions[i].transaction_type = "SELL"
          /\ transactions[i].asset = "XYZ"
          /\ NoBuyOf(transactions, "XYZ")
    /\ \E i \in 1..Len(transactions) :
          transactions[i].transaction_type = "BUY" /\ transactions[i].asset = "BTC"

\* the fetch pass has ended and one of its two reads had failed
FailedPass ==
    /\ dash.pc = "done"
    /\ dash.profilesRes.status = "error" \/ dash.transactionsRes.status = "error"

\* everything the dashboard renders from
Shown ==
    [profiles |-> profiles, transactions |-> transactions,
     prices |-> prices, loading |-> loading]

\* what the dashboard renders from after a successful pass over an empty ledger
ShownForEmptyLedger ==
    {[profiles |-> profs, transactions |-> <<>>, prices |-> emptyMap, loading |-> FALSE] :
        profs \in {<<>>} \cup rowOrders(idAndName(profilesTbl))}

\* the metrics are on display and all of them are 0
PresentsZeroMetrics ==
    /\ ~loading
    /\ viewTotalPortfolioValue = Zero /\ viewTotalCash = Zero /\ viewAllTimePL = Zero
    /\ viewAssetHoldings = <<>> /\ viewClientBreakdown = <<>>

(* C15: a pass whose profiles or transactions read failed ends in an outcome
   the caller can tell from a successful pass over an empty ledger, and does
   not put zero-valued metrics on display as if they were results. *)
C15_ReadFailureIsSurfaced ==
    FailedPass => (Shown \notin ShownForEmptyLedger /\ ~PresentsZeroMetrics)

\* both reads of the pass were answered with rows
ReadsAnswered ==
    dash.profilesRes.status = "ok" /\ dash.transactionsRes.status = "ok"

\* the quantity of the asset the ledger nets to
NetQty(txs, asset) ==
    RSub(MovedQty(txs, Len(txs), asset, "BUY"), MovedQty(txs, Len(txs), asset, "SELL"))

(* C16: a failed price fetch does not abort the pass: for a network error or
   a non-OK response fetchCryptoPrices resolves to the empty map, and the
   pass then ends with loading off and with cash, holdings and total computed
   from the ledger. *)
C16_PriceFailureDegrades ==
    /\ dash.pc = "prices" =>
          \A resp \in OracleResponses(requestedIds(uniqueAssets(transactions))) :
              ~resp.ok => fetchCryptoPrices(uniqueAssets(transactions), resp) = emptyMap
    /\ (dash.pc = "done" /\ ReadsAnswered /\ Len(transactions) > 0) =>
          LET held == viewAssetHoldings
          IN  /\ ~loading
              /\ viewTotalCash =
                    SumIdx([i \in 1..Len(transactions) |-> SignedValue(transactions[i])],
                           1..Len(transactions))
              /\ \A i \in 1..Len(transactions) :
                    LET a == transactions[i].asset
                    IN  (a # "USD" /\ RGtInv(NetQty(transactions, a), HoldingDustInv))
                        => \E j \in 1..Len(held) :
                              /\ held[j].name = a
                              /\ held[j].quantity = NetQty(transactions, a)
              /\ viewTotalPortfolioValue =
                    RAdd(viewTotalCash,
                         SumIdx([j \in 1..Len(held) |-> held[j].marketValue], 1..Len(held)))

\* a pass that asked for the price of BTC, got none and reports the position
C16_Witness ==
    /\ dash.pc = "done" /\ ReadsAnswered
    /\ requestedIds(uniqueAssets(transactions)) # {}
    /\ prices = emptyMap
    /\ ~loading
    /\ Len(viewAssetHoldings) = 1
    /\ viewAssetHoldings[1].name = "BTC"
    /\ RPos(viewAssetHoldings[1].marketValue)

\* the oracle knows an id for the symbol and the response quotes it
Resolved(symbol, resp) ==
    /\ toLowerCase(symbol) \in DOMAIN ASSET_ID_MAP
    /\ resp.ok
    /\ ASSET_ID_MAP[toLowerCase(symbol)] \in DOMAIN resp.data

(* C17: every key of the map fetchCryptoPrices returns is the lower-cased
   form of a requested symbol the oracle resolved, and carries the quoted
   price; a requested symbol the oracle did not resolve has no key, and the
   call still resolves. *)
C17_KeysAreResolvedSymbols ==
    call.pc = "done" =>
        /\ \A k \in DOMAIN call.result :
              \E i \in 1..Len(call.assets) :
                  /\ k = toLowerCase(call.assets[i])
                  /\ Resolved(call.assets[i], call.resp)
                  /\ call.result[k] = call.resp.data[ASSET_ID_MAP[k]]
        /\ \A i \in 1..Len(call.assets) :
              /\ Resolved(call.assets[i], call.resp)
                    => toLowerCase(call.assets[i]) \in DOMAIN call.result
              /\ ~Resolved(call.assets[i], call.resp)
                    => /\ toLowerCase(call.assets[i]) \notin DOMAIN call.result
                       /\ call.assets[i] \notin DOMAIN call.result

\* an upper-case symbol resolved next to a symbol the oracle has no id for
C17_Witness ==
    /\ call.pc = "done"
    /\ call.assets = <<"BTC", "xyz">>
    /\ DOMAIN call.result = {"btc"}

-----------------------------------------------------------------------------
(* Display order, the single-client scenario and unmounting *)

\* position of the asset among the keys of the holdings, in insertion order
KeyIndex(asset) ==
    CHOOSE i \in 1..Len(holdingKeys(transactions)) : holdingKeys(transactions)[i] = asset

\* position of the client in the list of profiles the pass delivered
ProfileIndex(name) ==
    CHOOSE i \in 1..Len(profiles) : profiles[i].name = name

(* C18: the positions on display are in descending order of marketValue and
   the clients in descending order of equityValue; in both lists entries of
   equal value keep their order of insertion. *)
C18_DisplayOrder ==
    Computed =>
        LET held == viewAssetHoldings
            clients == viewClientBreakdown
        IN  /\ \A i, j \in 1..Len(held) :
                  i < j => \/ RGt(held[i].marketValue, held[j].marketValue)
                           \/ /\ held[i].marketValue = held[j].marketValue
                              /\ KeyIndex(held[i].name) < KeyIndex(held[j].name)
            /\ \A i, j \in 1..Len(clients) :
                  i < j => \/ RGt(clients[i].equityValue, clients[j].equityValue)
                           \/ /\ clients[i].equityValue = clients[j].equityValue
                              /\ ProfileIndex(clients[i].name) < ProfileIndex(clients[j].name)

\* the rows of the given type
RowsOfType(type) ==
    {i \in 1..Len(transactions) : transactions[i].transaction_type = type}

\* the rows are deposits of one client and purchases of one asset, the
\* purchases within the capital deposited, and the asset has a price
SoleClientOneAsset(client, asset) ==
    /\ RowsOfType("DEPOSIT") # {} /\ RowsOfType("BUY") # {}
    /\ RowsOfType("WITHDRAW") = {} /\ RowsOfType("SELL") = {}
    /\ \A i \in RowsOfType("DEPOSIT") : transactions[i].profile_id = client
    /\ \A i \in RowsOfType("BUY") : transactions[i].asset = asset
    /\ asset # "USD" /\ client # NoProfile
    /\ toLowerCase(asset) \in DOMAIN prices
    /\ ~RLt(SumIdx([i \in 1..Len(transactions) |-> transactions[i].transaction_value_usd],
                   RowsOfType("DEPOSIT")),
            SumIdx([i \in 1..Len(transactions) |-> transactions[i].transaction_value_usd],
                   RowsOfType("BUY")))

(* C19: with one client having deposited D and one asset bought, quantity q
   for value V <= D, now priced at p: cash is D - V, the position is worth
   q * p, totalPortfolioValue is D - V + q * p, the client owns 100% with
   equity equal to totalPortfolioValue, and the profit is q * p - V (deposit
   10,000, buy 0.1 BTC for 6,000, price 70,000: cash 4,000, value 7,000,
   total 11,000, profit 1,000). *)
C19_SoleClientScenario ==
    Computed =>
        \A pi \in 1..Len(profiles), a \in Symbols :
            SoleClientOneAsset(profiles[pi].id, a) =>
                LET values == [i \in 1..Len(transactions) |-> transactions[i].transaction_value_usd]
                    D == SumIdx(values, RowsOfType("DEPOSIT"))
                    V == SumIdx(values, RowsOfType("BUY"))
                    q == SumIdx([i \in 1..Len(transactions) |-> transactions[i].asset_quantity],
                                RowsOfType("BUY"))
                    p == prices[toLowerCase(a)]
                    total == RAdd(RSub(D, V), RMul(q, p))
                    clients == viewClientBreakdown
                IN  /\ viewTotalCash = RSub(D, V)
                    /\ viewAssetHoldings = <<[name |-> a, quantity |-> q, marketValue |-> RMul(q, p)]>>
                    /\ viewTotalPortfolioValue = total
                    /\ viewAllTimePL = RSub(RMul(q, p), V)
                    /\ \A i \in 1..Len(clients) :
                          clients[i].name = profiles[pi].name =>
                              /\ clients[i].ownershipPercentage = R(100)
                              /\ clients[i].equityValue = total
                              /\ clients[i].capitalDeposited = D
                    /\ (D = R(10000) /\ V = R(6000) /\ q = RDiv(R(1), R(10)) /\ p = R(70000)) =>
                          /\ viewTotalCash = R(4000)
                          /\ viewAssetHoldings[1].marketValue = R(7000)
                          /\ viewTotalPortfolioValue = R(11000)
                          /\ viewAllTimePL = R(1000)

\* deposit 10,000, buy 0.1 BTC for 6,000, BTC at 70,000
C19_Witness ==
    /\ Computed
    /\ Len(transactions) = 2
    /\ SoleClientOneAsset(1, "BTC")
    /\ transactions[1].transaction_value_usd = R(10000)
    /\ transactions[2].transaction_value_usd = R(6000)
    /\ transactions[2].asset_quantity = RDiv(R(1), R(10))
    /\ prices["btc"] = R(70000)
    /\ viewTotalPortfolioValue = R(11000)

(* C20: once the dashboard is unmounted, nothing of a pass still in flight is
   written into its state: profiles, transactions, prices and loading keep
   the values they had at the unmount. *)
C20_UnmountDiscardsPass ==
    [][~mounted => UNCHANGED <<profiles, transactions, prices, loading>>]_vars

\* a pass that delivered rows and asked for prices after the unmount, ended
C20_Witness ==
    /\ ~mounted
    /\ dash.pc = "done" /\ ReadsAnswered
    /\ requestedIds(uniqueAssets(dash.transactionsRes.data)) # {}
    /\ transactions = <<>> /\ profiles = <<>> /\ prices = emptyMap
    /\ loading

-----------------------------------------------------------------------------
(* The loading guard, the cost basis and the running totals *)

\* every metric the dashboard exposes is its zero or empty default
MetricsAtDefault ==
    /\ viewTotalPortfolioValue = Zero /\ viewTotalCash = Zero /\ viewAllTimePL = Zero
    /\ viewAssetHoldings = <<>> /\ viewAssetAllocation = <<>>
    /\ viewClientBreakdown = <<>> /\ viewRealizedPnLData = <<>>

(* C21: from the start of a fetch pass until both reads and the price fetch
   have settled, loading is true and every metric the dashboard exposes is
   its zero or empty default: nothing computed from the new ledger is shown
   while the prices are still missing. *)
C21_NoMetricBeforeJoin ==
    dash.pc # "done" => (loading /\ MetricsAtDefault)

\* the rows of the pass are in the state and its prices are still awaited
C21_Witness ==
    /\ dash.pc = "prices"
    /\ Len(transactions) = 2
    /\ \E i \in 1..2 : transactions[i].asset = "BTC"
    /\ \E i \in 1..2 : transactions[i].transaction_type = "DEPOSIT"
    /\ prices = emptyMap
    /\ loading

\* the smaller of two numbers
RMin(a, b) == IF RLt(a, b) THEN a ELSE b

\* quantity held and total cost of an asset after the first k rows: a BUY adds
\* its quantity and value, a SELL on a positive position takes away the
\* average cost of min(sold, held) units and the quantity sold
RECURSIVE HeldAtCost(_, _, _)
HeldAtCost(chron, k, asset) ==
    IF k = 0 THEN [quantity |-> Zero, totalCost |-> Zero]
    ELSE LET prev == HeldAtCost(chron, k - 1, asset)
             t == chron[k]
         IN  IF t.asset # asset THEN prev
             ELSE IF t.transaction_type = "BUY"
                  THEN [quantity |-> RAdd(prev.quantity, t.asset_quantity),
                        totalCost |-> RAdd(prev.totalCost, t.transaction_value_usd)]
             ELSE IF t.transaction_type = "SELL" /\ RPos(prev.quantity)
                  THEN [quantity |-> RSub(prev.quantity, t.asset_quantity),
                        totalCost |->
                           RSub(prev.totalCost,
                                RMul(RDiv(prev.totalCost, prev.quantity),
                                     RMin(t.asset_quantity, prev.quantity)))]
             ELSE prev

(* C22: the per-unit cost basis held for an asset is the weighted-average
   cost of the units currently held, totalCost / quantity, each BUY adding
   its quantity and value and each SELL on a positive position removing the
   average cost of the units sold; a BUY made after the position was sold
   out starts a fresh basis equal to that BUY's price. *)
C22_BasisIsCostOfUnitsHeld ==
    Computed =>
        \A i \in 1..Len(transactions) :
            LET a == transactions[i].asset
                now == HeldAtCost(Chron(transactions), Len(transactions), a)
            IN  (a # "USD" /\ RPos(now.quantity))
                => costBasisMap(transactions, a) = RDiv(now.totalCost, now.quantity)


\* a sale of more than the replay holds of the asset is among the first k rows
OversoldBy(k) ==
    \E j \in 1..k :
        LET t == sortedTransactions(transactions)[j]
        IN  /\ t.asset # "USD" /\ t.transaction_type = "SELL"
            /\ RPos(ReplayAfter(j - 1).runningCosts[t.asset].totalQuantity)
            /\ RLt(ReplayAfter(j - 1).runningCosts[t.asset].totalQuantity, t.asset_quantity)

(* C23: in the realized P&L replay, after every processed transaction of any
   ledger, sales of more than the running quantity included, each asset's
   running quantity and running cost are at least 0, and the running
   quantity is 0 exactly when the running cost is 0, as an entry starts and
   as a sale resets it. *)
C23_RunningTotalsNonNegative ==
    \A k \in 0..Len(transactions), a \in Symbols :
        LET assetCosts == ReplayAfter(k).runningCosts[a]
        IN  /\ ~RLt(assetCosts.totalQuantity, Zero)
            /\ ~RLt(assetCosts.totalCost, Zero)
            /\ (assetCosts.totalQuantity = Zero) <=> (assetCosts.totalCost = Zero)

\* a unit bought, two sold, and the totals reset by that sale
C23_Witness ==
    /\ Len(transactions) = 3
    /\ OversoldBy(2) /\ ~OversoldBy(1)
    /\ ReplayAfter(1).runningCosts["BTC"].totalQuantity = R(1)
    /\ ReplayAfter(2).runningCosts["BTC"] = [totalQuantity |-> Zero, totalCost |-> Zero]
    /\ RPos(ReplayAfter(3).runningCosts["BTC"].totalCost)


-----------------------------------------------------------------------------
(* The trade form, the profit and loss, the session and the end of a pass *)

\* the row is a trade as the form may write it
WellFormedTrade(row) ==
    /\ row.transaction_type \in {"BUY", "SELL"}
    /\ RPos(row.transaction_value_usd)
    /\ RPos(row.price_per_asset_usd)
    /\ RPos(row.asset_quantity)
    /\ row.transaction_value_usd = RMul(row.asset_quantity, row.price_per_asset_usd)

(* C24: every transaction appended by the log-trade form has type BUY or
   SELL, a positive transaction_value_usd and price_per_asset_usd, and a
   positive asset_quantity with transaction_value_usd = asset_quantity *
   price_per_asset_usd; a submission whose value or price is not positive
   appends nothing. *)
C24_FormAppendsWellFormedTrades ==
    [][/\ (ledger' # ledger) =>
             /\ Len(ledger') = Len(ledger) + 1
             /\ SubSeq(ledger', 1, Len(ledger)) = ledger
             /\ WellFormedTrade(ledger'[Len(ledger')])
       /\ (~RPos(form.values.transaction_value_usd) \/ ~RPos(form.values.price_per_asset_usd))
             => ledger' = ledger]_vars

\* 100 USD at 150 appended as 2/3 of a unit, and after it a form with the
\* price 0 turned down
C24_Witness ==
    /\ Len(ledger) = 1
    /\ ledger[1].transaction_type = "SELL"
    /\ ledger[1].asset = "BTC"
    /\ ledger[1].asset_quantity = <<2, 3>>
    /\ form.errors
    /\ form.values.transaction_value_usd = R(100)
    /\ form.values.price_per_asset_usd = Zero


\* the sum of the USD values of the rows of the given type
ValueOfType(txs, type) ==
    SumIdx([i \in 1..Len(txs) |-> txs[i].transaction_value_usd],
           {i \in 1..Len(txs) : txs[i].transaction_type = type})

(* C25: allTimePL is the total market value of the listed holdings plus the
   sum of the SELL values minus the sum of the BUY values, for every ledger
   and price map, so appending a DEPOSIT or a WITHDRAW to the ledger leaves
   allTimePL as it was. *)
C25_CashMovesLeaveProfit ==
    ~loading =>
        /\ viewAllTimePL =
              RSub(RAdd(SumIdx([i \in 1..Len(viewAssetHoldings) |->
                                   viewAssetHoldings[i].marketValue],
                               1..Len(viewAssetHoldings)),
                        ValueOfType(transactions, "SELL")),
                   ValueOfType(transactions, "BUY"))
        /\ \A payload \in EngineCash, ts \in Times :
              allTimePL(insertTransaction(transactions, payload, ts), prices, loading)
                 = viewAllTimePL

\* a unit bought at 100 and quoted at 150, then a withdrawal and a deposit
C25_Witness ==
    /\ Computed
    /\ Len(transactions) = 3
    /\ transactions[1].transaction_type = "BUY"
    /\ transactions[2].transaction_type = "WITHDRAW"
    /\ transactions[3].transaction_type = "DEPOSIT"
    /\ transactions[3].profile_id # transactions[2].profile_id
    /\ viewAllTimePL = R(50)
    /\ allTimePL(SubSeq(transactions, 1, 1), prices, loading) = R(50)


(* C26: under every interleaving of the initial getSession result with auth
   state-change callbacks, once both have been delivered the context's
   session is the one carried by the most recent auth event: a getSession
   result that resolves after a newer event never overwrites that event's
   session. *)
C26_LatestEventWins ==
    (auth.mounted /\ auth.pc = "done" /\ authClient.heard)
        => auth.session = authClient.last


(* C27: every dashboard fetch pass whose store and oracle calls settle
   eventually ends with loading = false on the mounted page, whether both
   ledger reads succeed, either fails, or the price fetch fails; loading
   does not stay true for ever once the calls have settled. *)
C27_PassEndsLoading == <>[](dash.pc = "done" /\ (mounted => ~loading))

\* a pass ended by a failed read of the ledger, the profiles read answered
C27_Witness ==
    /\ mounted /\ dash.pc = "done" /\ ~loading
    /\ dash.profilesRes.status = "ok"
    /\ dash.transactionsRes.status = "error"
    /\ Len(ledger) = 2
    /\ transactions = <<>>

=============================================================================
